---- MODULE Spec2Model ----
(***************************************************************************)
(* A model of the som-rs front end: the bytecode encoder and decoding      *)
(* iterator (src/interpreter/bytecode.rs), the lexer                       *)
(* (src/compiler/lexer.rs) and the parser (src/compiler/parser.rs).        *)
(*                                                                         *)
(* Three state machines share the module, each with its own               *)
(* specification:                                                          *)
(*   SpecBytecode  - BytecodeIterator::next over a byte sequence           *)
(*   SpecLexer     - Lexer::next, one step per loop iteration              *)
(*   SpecParser    - Parser::parse / parse_method / parse_expression       *)
(***************************************************************************)
EXTENDS Integers, Sequences, FiniteSets, TLC

VARIABLES
    \* ---- bytecode decoder (src/interpreter/bytecode.rs) ----
    bcProgram,   \* ghost: the instructions whose encoding is the input
    bcCut,       \* ghost: bytes cut off the end of that encoding
    bcRaw,       \* ghost: TRUE when the input is an arbitrary byte sequence
    inner,       \* BytecodeIterator.inner: the bytes not yet read
    yielded,     \* every Some(..) item next() has returned, in order
    bcLast,      \* what the last call of next() returned
    \* ---- lexer (src/compiler/lexer.rs) ----
    source,      \* ghost: the characters the reader was created over
    buffer,      \* Lexer.buffer: the PeekableBuffer (reader, position, line, buffer)
    queue,       \* Lexer.queue
    lpc,         \* the place in read_token the running call of next() is at
    text,        \* the local `text` / `sequence` of the running read_* function
    location,    \* the local `location` of the running read_* function
    lexLast,     \* what the last call of next() returned
    lexOut,      \* every Some(..) item next() has returned, in order
    \* ---- parser (src/compiler/parser.rs) ----
    ptokens,     \* ghost: the items the lexer of the parser was to give
    parser,      \* the Parser: lexer (items still to come), last_location
    pcalled,     \* the parse function that was called on the parser
    presult,     \* what that call returned
    \* ---- symbol interner (src/vm/universe.rs) ----
    universe,    \* the Universe: symbols, from a text to its Rc<SSymbol>
    heap,        \* the SSymbol values Rc::new has allocated, by address
    loaded       \* ghost: the text and the result of every load_symbol call

bcVars == <<bcProgram, bcCut, bcRaw, inner, yielded, bcLast>>

lexVars == <<source, buffer, queue, lpc, text, location, lexLast, lexOut>>

parVars == <<ptokens, parser, pcalled, presult>>

uniVars == <<universe, heap, loaded>>

vars == <<bcVars, lexVars, parVars, uniVars>>

(***************************************************************************)
(* Generic helpers                                                         *)
(***************************************************************************)
SeqsUpTo(S, n) == UNION {[1..k -> S] : k \in 0..n}

RECURSIVE Flatten(_)
Flatten(ss) == IF ss = <<>> THEN <<>> ELSE Head(ss) \o Flatten(Tail(ss))

(***************************************************************************)
(* Bytecode: src/interpreter/bytecode.rs                                   *)
(***************************************************************************)
\* u8: the type of a byte and of the index / context fields.
MaxByte == 255

\* enum Bytecode, grouped by the fields each variant carries.
NoArgOps == {"Halt", "Dup", "Pop", "ReturnLocal", "ReturnNonLocal"}

IndexOps == {"PushField", "PushBlock", "PushConstant", "PushGlobal",
             "PopField", "Send", "SuperSend"}

IndexContextOps == {"PushLocal", "PushArgument", "PopLocal", "PopArgument"}

\* A Bytecode value. Every variant is a record with the same three fields so
\* that values compare; a field the variant does not have is -1.
Bytecode(op, index, context) == [op |-> op, index |-> index, context |-> context]

Nullary(op) == Bytecode(op, -1, -1)

Unary(op, index) == Bytecode(op, index, -1)

\* From<Bytecode> with the two fields written context first.
MutEncodeSwapped(b) ==
    CASE b.op = "Halt"           -> <<0>>
      [] b.op = "Dup"            -> <<1>>
      [] b.op = "PushLocal"      -> <<2, b.context, b.index>>
      [] b.op = "PushArgument"   -> <<3, b.context, b.index>>
      [] b.op = "PushField"      -> <<4, b.index>>
      [] b.op = "PushBlock"      -> <<5, b.index>>
      [] b.op = "PushConstant"   -> <<6, b.index>>
      [] b.op = "PushGlobal"     -> <<7, b.index>>
      [] b.op = "Pop"            -> <<8>>
      [] b.op = "PopLocal"       -> <<9, b.context, b.index>>
      [] b.op = "PopArgument"    -> <<10, b.context, b.index>>
      [] b.op = "PopField"       -> <<11, b.index>>
      [] b.op = "Send"           -> <<12, b.index>>
      [] b.op = "SuperSend"      -> <<13, b.index>>
      [] b.op = "ReturnLocal"    -> <<14>>
      [] b.op = "ReturnNonLocal" -> <<15>>

\* impl From<Bytecode> for Vec<u8>
Encode(b) ==
    CASE b.op = "Halt"           -> <<0>>
      [] b.op = "Dup"            -> <<1>>
      [] b.op = "PushLocal"      -> <<2, b.index, b.context>>
      [] b.op = "PushArgument"   -> <<3, b.index, b.context>>
      [] b.op = "PushField"      -> <<4, b.index>>
      [] b.op = "PushBlock"      -> <<5, b.index>>
      [] b.op = "PushConstant"   -> <<6, b.index>>
      [] b.op = "PushGlobal"     -> <<7, b.index>>
      [] b.op = "Pop"            -> <<8>>
      [] b.op = "PopLocal"       -> <<9, b.index, b.context>>
      [] b.op = "PopArgument"    -> <<10, b.index, b.context>>
      [] b.op = "PopField"       -> <<11, b.index>>
      [] b.op = "Send"           -> <<12, b.index>>
      [] b.op = "SuperSend"      -> <<13, b.index>>
      [] b.op = "ReturnLocal"    -> <<14>>
      [] b.op = "ReturnNonLocal" -> <<15>>

\* The byte stream of a program: the concatenation of the encodings.
EncodeAll(p) == Flatten([i \in 1..Len(p) |-> Encode(p[i])])

\* enum BytecodeIteratorError
UnknownBytecode(c) == [kind |-> "UnknownBytecode", code |-> c]

InsufficientArguments == [kind |-> "InsufficientArguments", code |-> -1]

\* The values of Result<Option<Bytecode>> and Option<Result<Bytecode>>.
NoBytecode == Nullary("none")

NoError == [kind |-> "none", code |-> -1]

BcOk(b) == [tag |-> "Ok", value |-> b, error |-> NoError]

BcErr(e) == [tag |-> "Err", value |-> NoBytecode, error |-> e]

BcNone == [tag |-> "None", value |-> NoBytecode, error |-> NoError]

BcStart == [tag |-> "Start", value |-> NoBytecode, error |-> NoError]

\* read_argument with unwrap_or(0) in place of ok_or(InsufficientArguments).
MutReadArgumentZero(bytes) ==
    IF bytes = <<>>
    THEN [ok |-> TRUE, value |-> 0, rest |-> <<>>]
    ELSE [ok |-> TRUE, value |-> Head(bytes), rest |-> Tail(bytes)]

\* BytecodeIterator::read_argument: the next byte of inner, or
\* InsufficientArguments. Returns the result and the iterator left behind.
ReadArgument(bytes) ==
    IF bytes = <<>>
    THEN [ok |-> FALSE, value |-> -1, rest |-> <<>>]
    ELSE [ok |-> TRUE, value |-> Head(bytes), rest |-> Tail(bytes)]

\* A variant with one field: index: self.read_argument()?
ReadIndex(op, bytes) ==
    LET a == ReadArgument(bytes)
    IN  IF a.ok
        THEN [result |-> BcOk(Unary(op, a.value)), rest |-> a.rest]
        ELSE [result |-> BcErr(InsufficientArguments), rest |-> a.rest]

\* A variant with two fields: index: self.read_argument()?, then
\* context: self.read_argument()?
ReadIndexContext(op, bytes) ==
    LET a == ReadArgument(bytes)
    IN  IF ~a.ok
        THEN [result |-> BcErr(InsufficientArguments), rest |-> a.rest]
        ELSE LET c == ReadArgument(a.rest)
             IN  IF c.ok
                 THEN [result |-> BcOk(Bytecode(op, a.value, c.value)),
                       rest |-> c.rest]
                 ELSE [result |-> BcErr(InsufficientArguments),
                       rest |-> c.rest]

\* The tag column of the match in read_bytecode with the last arm one tag
\* early: 15 is no longer ReturnNonLocal.
MutOpcodeOfShort(code) ==
    CASE code = 0  -> "Halt"
      [] code = 1  -> "Dup"
      [] code = 2  -> "PushLocal"
      [] code = 3  -> "PushArgument"
      [] code = 4  -> "PushField"
      [] code = 5  -> "PushBlock"
      [] code = 6  -> "PushConstant"
      [] code = 7  -> "PushGlobal"
      [] code = 8  -> "Pop"
      [] code = 9  -> "PopLocal"
      [] code = 10 -> "PopArgument"
      [] code = 11 -> "PopField"
      [] code = 12 -> "Send"
      [] code = 13 -> "SuperSend"
      [] code = 14 -> "ReturnLocal"
      [] OTHER     -> "unknown"

\* The tag column of the match in read_bytecode with the arms of Send and
\* SuperSend exchanged.
MutOpcodeOfSwapped(code) ==
    CASE code = 0  -> "Halt"
      [] code = 1  -> "Dup"
      [] code = 2  -> "PushLocal"
      [] code = 3  -> "PushArgument"
      [] code = 4  -> "PushField"
      [] code = 5  -> "PushBlock"
      [] code = 6  -> "PushConstant"
      [] code = 7  -> "PushGlobal"
      [] code = 8  -> "Pop"
      [] code = 9  -> "PopLocal"
      [] code = 10 -> "PopArgument"
      [] code = 11 -> "PopField"
      [] code = 12 -> "SuperSend"
      [] code = 13 -> "Send"
      [] code = 14 -> "ReturnLocal"
      [] code = 15 -> "ReturnNonLocal"
      [] OTHER     -> "unknown"

\* The match in read_bytecode: the variant each tag byte selects; the last
\* arm (c => UnknownBytecode(c)) is "unknown".
OpcodeOf(code) ==
    CASE code = 0  -> "Halt"
      [] code = 1  -> "Dup"
      [] code = 2  -> "PushLocal"
      [] code = 3  -> "PushArgument"
      [] code = 4  -> "PushField"
      [] code = 5  -> "PushBlock"
      [] code = 6  -> "PushConstant"
      [] code = 7  -> "PushGlobal"
      [] code = 8  -> "Pop"
      [] code = 9  -> "PopLocal"
      [] code = 10 -> "PopArgument"
      [] code = 11 -> "PopField"
      [] code = 12 -> "Send"
      [] code = 13 -> "SuperSend"
      [] code = 14 -> "ReturnLocal"
      [] code = 15 -> "ReturnNonLocal"
      [] OTHER     -> "unknown"

\* BytecodeIterator::read_bytecode: None at the end of inner, else the arm of
\* the tag byte, which reads the fields its variant has.
ReadBytecode(bytes) ==
    IF bytes = <<>>
    THEN [result |-> BcNone, rest |-> <<>>]
    ELSE LET code == Head(bytes)
             rest == Tail(bytes)
             op   == OpcodeOf(code)
         IN  CASE op = "unknown" ->
                    [result |-> BcErr(UnknownBytecode(code)), rest |-> rest]
               [] op \in IndexContextOps -> ReadIndexContext(op, rest)
               [] op \in IndexOps -> ReadIndex(op, rest)
               [] OTHER -> [result |-> BcOk(Nullary(op)), rest |-> rest]

\* impl Iterator for BytecodeIterator: next()
BytecodeIterator_next ==
    LET r == ReadBytecode(inner)
    IN  /\ inner' = r.rest
        /\ bcLast' = r.result
        /\ yielded' = IF r.result.tag = "None"
                      THEN yielded
                      ELSE Append(yielded, r.result)
        /\ UNCHANGED <<bcProgram, bcCut, bcRaw>>
        /\ UNCHANGED <<lexVars, parVars, uniVars>>

\* ---- the inputs of the bytecode specification ----
MaxInstrs == 2

MaxBytes == 3

\* Argument bytes: one that is also the tag of a two-argument opcode, and
\* the largest u8 (no tag).
ArgBytes == {3, MaxByte}

\* Raw input bytes: every opcode tag, the first unknown one, and the last u8.
RawBytes == (0..16) \cup {MaxByte}

Instructions ==
    {Nullary(op) : op \in NoArgOps}
    \cup {Unary(op, i) : op \in IndexOps, i \in ArgBytes}
    \cup {Bytecode(op, i, c) : op \in IndexContextOps, i \in ArgBytes, c \in ArgBytes}

\* The number of argument bytes a variant of enum Bytecode declares.
FieldCount(b) ==
    IF b.op \in IndexContextOps THEN 2 ELSE IF b.op \in IndexOps THEN 1 ELSE 0

\* BytecodeIterator::new over (a) the encoding of a program, possibly with
\* argument bytes of its last instruction cut off, or (b) arbitrary bytes.
BcInit ==
    /\ yielded = <<>>
    /\ bcLast = BcStart
    /\ \/ /\ bcRaw = FALSE
          /\ bcProgram \in SeqsUpTo(Instructions, MaxInstrs)
          /\ bcCut \in 0..2
          /\ bcCut > 0 => /\ bcProgram # <<>>
                          /\ bcCut <= FieldCount(bcProgram[Len(bcProgram)])
          /\ inner = SubSeq(EncodeAll(bcProgram), 1,
                            Len(EncodeAll(bcProgram)) - bcCut)
       \/ /\ bcRaw = TRUE
          /\ bcProgram = <<>>
          /\ bcCut = 0
          /\ inner \in SeqsUpTo(RawBytes, MaxBytes)

\* The decoder variables while another component runs.
BcIdle ==
    /\ bcProgram = <<>>
    /\ bcCut = 0
    /\ bcRaw = FALSE
    /\ inner = <<>>
    /\ yielded = <<>>
    /\ bcLast = BcStart

BcNext == BytecodeIterator_next

(***************************************************************************)
(* Lexer: src/compiler/lexer.rs                                            *)
(*                                                                         *)
(* A character is a one-element string; a String is a sequence of          *)
(* characters. Option<char> None is NoChar. usize arithmetic on the line   *)
(* counter wraps (the release build), at LineWrap in place of 2^64.        *)
(***************************************************************************)
NoChar == ""

Newline == "\n"

Quote == "'"

DoubleQuote == "\""

Backslash == "\\"

AsciiDigits == {"0", "1", "2", "3", "4", "5", "6", "7", "8", "9"}

AsciiLetters ==
    {"a", "b", "c", "d", "e", "f", "g", "h", "i", "j", "k", "l", "m",
     "n", "o", "p", "q", "r", "s", "t", "u", "v", "w", "x", "y", "z",
     "A", "B", "C", "D", "E", "F", "G", "H", "I", "J", "K", "L", "M",
     "N", "O", "P", "Q", "R", "S", "T", "U", "V", "W", "X", "Y", "Z"}

\* The control characters U+0008 and U+000C.
Backspace == "U+0008"

FormFeed == "U+000C"

\* A character whose UTF-8 encoding is two bytes (U+00E9, alphabetic but
\* not ASCII).
EAcute == "U+00E9"

\* char::is_whitespace, on the characters of the model
IsWhitespace(c) == c \in {" ", Newline, "\t", "\r"}

\* char::is_ascii_digit
IsAsciiDigit(c) == c \in AsciiDigits

\* char::is_ascii_alphabetic
IsAsciiAlphabetic(c) == c \in AsciiLetters

\* char::is_ascii_alphanumeric
IsAsciiAlphanumeric(c) == c \in AsciiLetters \cup AsciiDigits

\* IsOperatorExt::is_operator
IsOperator(c) ==
    c \in {"~", "&", "|", "*", "/", Backslash, "+", "=", ">", "<", ",", "@",
           "%", "-"}

\* char::len_utf8
LenUtf8(c) == IF c = EAcute THEN 2 ELSE 1

\* String::len: the length in bytes
RECURSIVE StringLen(_)
StringLen(s) == IF s = <<>> THEN 0 ELSE LenUtf8(Head(s)) + StringLen(Tail(s))

\* Option<String>
NoText == <<>>

SomeText(t) == <<t>>

\* struct Location
Location(line, column) == [line |-> line, column |-> column]

\* Token::new
Token(kind, txt, loc) == [kind |-> kind, text |-> txt, location |-> loc]

\* The line counter is a usize; the model wraps it at LineWrap.
LineWrap == 8

\* BufRead::read_line on the reader: the characters up to and including the
\* first newline, or all that is left. failAt counts the calls that succeed
\* before one returns an I/O error (-1: none does).
ReadLineLength(rest) ==
    IF \E i \in 1..Len(rest) : rest[i] = Newline
    THEN CHOOSE i \in 1..Len(rest) :
             rest[i] = Newline /\ \A j \in 1..(i - 1) : rest[j] # Newline
    ELSE Len(rest)

\* PeekableBuffer::fill_buffer. ok is FALSE when read_line failed (the `?`).
FillBuffer(b) ==
    IF b.position >= StringLen(b.buffer)
    THEN IF b.reader.failAt = 0
         THEN [ok |-> FALSE,
               b |-> [b EXCEPT !.buffer = <<>>, !.reader.failAt = -1]]
         ELSE LET n == ReadLineLength(b.reader.rest)
              IN  [ok |-> TRUE,
                   b |-> [reader |-> [rest |-> SubSeq(b.reader.rest, n + 1,
                                                      Len(b.reader.rest)),
                                      failAt |-> IF b.reader.failAt > 0
                                                 THEN b.reader.failAt - 1
                                                 ELSE -1],
                          buffer |-> SubSeq(b.reader.rest, 1, n),
                          line |-> (b.line + 1) % LineWrap,
                          position |-> 0]]
    ELSE [ok |-> TRUE, b |-> b]

\* PeekableBuffer::peek: the character at index position of the buffer
\* (chars().nth(position)), after fill_buffer.
Peek(b) ==
    LET f == FillBuffer(b)
    IN  [ok |-> f.ok,
         c  |-> IF f.ok /\ f.b.position < Len(f.b.buffer)
                THEN f.b.buffer[f.b.position + 1]
                ELSE NoChar,
         b  |-> f.b]

\* PeekableBuffer::consume
Consume(b) == FillBuffer([b EXCEPT !.position = @ + 1])

\* A current_location that counts columns from 1.
MutCurrentLocationFromOne(b) == [line |-> b.line, column |-> b.position + 1]

\* PeekableBuffer::current_location
CurrentLocation(b) == Location(b.line, b.position)

\* PeekableBuffer::new
NewBuffer(chars, failAt) ==
    [reader |-> [rest |-> chars, failAt |-> failAt],
     buffer |-> <<>>, position |-> 0, line |-> 0]

\* The values of Option<Result<Token>> that next() returns.
NoToken == Token("none", NoText, Location(0, 0))

LexToken(t) == [tag |-> "Token", token |-> t]

LexNone == [tag |-> "None", token |-> NoToken]

LexIoError == [tag |-> "IoError", token |-> NoToken]

LexStart == [tag |-> "Start", token |-> NoToken]

\* The locals of a read_* function when none is running.
NoLocation == Location(0, 0)

\* next() returns item r with the buffer left as b and the queue as q.
Return(r, b, q) ==
    /\ lpc' = "idle"
    /\ lexLast' = r
    /\ lexOut' = IF r.tag = "None" THEN lexOut ELSE Append(lexOut, r)
    /\ buffer' = b
    /\ queue' = q
    /\ text' = <<>>
    /\ location' = NoLocation
    /\ UNCHANGED <<source, bcVars, parVars, uniVars>>

\* A `?` on a failed buffer operation: next() returns Some(Err(e)).
Fail(b) == Return(LexIoError, b, queue)

\* The running call moves on to place pc with locals txt and loc.
Goto(pc, b, txt, loc) ==
    /\ lpc' = pc
    /\ buffer' = b
    /\ text' = txt
    /\ location' = loc
    /\ UNCHANGED <<source, queue, lexLast, lexOut, bcVars, parVars, uniVars>>

\* A read_token that reads on without looking at the queue.
MutLexerNextSkipsQueue ==
    /\ lpc = "idle"
    /\ Goto("skip", buffer, <<>>, NoLocation)

\* Lexer::next -> read_token, lines 94-97: a queued token is returned
\* before anything is read.
Lexer_next ==
    /\ lpc = "idle"
    /\ IF queue # <<>>
       THEN Return(LexToken(Head(queue)), buffer, Tail(queue))
       ELSE Goto("skip", buffer, <<>>, NoLocation)

\* read_token, lines 99-105: one iteration of the loop that skips
\* whitespace and comments.
SkipWhitespace ==
    /\ lpc = "skip"
    /\ LET p == Peek(buffer)
       IN  IF ~p.ok THEN Fail(p.b)
           ELSE IF p.c = DoubleQuote
           THEN Goto("skip_comment", p.b, <<>>, NoLocation)
           ELSE IF p.c # NoChar /\ IsWhitespace(p.c)
           THEN LET c == Consume(p.b)
                IN  IF c.ok THEN Goto("skip", c.b, <<>>, NoLocation)
                    ELSE Fail(c.b)
           ELSE Goto("read_token", p.b, <<>>, NoLocation)

\* skip_comment: one iteration of its loop.
SkipComment ==
    /\ lpc = "skip_comment"
    /\ LET c == Consume(buffer)
       IN  IF ~c.ok THEN Fail(c.b)
           ELSE LET p == Peek(c.b)
                IN  IF ~p.ok THEN Fail(p.b)
                    ELSE IF p.c = DoubleQuote
                    THEN LET d == Consume(p.b)
                         IN  IF d.ok THEN Goto("skip", d.b, <<>>, NoLocation)
                             ELSE Fail(d.b)
                    ELSE Goto("skip_comment", p.b, <<>>, NoLocation)

\* The token kind of each single-character structural symbol
\* (read_token, lines 113-119).
SymbolKind ==
    [c \in {"[", "]", "(", ")", "#", "^", "."} |->
        CASE c = "[" -> "NewBlock"
          [] c = "]" -> "EndBlock"
          [] c = "(" -> "NewTerm"
          [] c = ")" -> "EndTerm"
          [] c = "#" -> "Pound"
          [] c = "^" -> "Exit"
          [] c = "." -> "Period"]

\* read_symbol
ReadSymbol(kind, b) ==
    LET c == Consume(b)
    IN  IF c.ok
        THEN Return(LexToken(Token(kind, NoText, CurrentLocation(b))), c.b, queue)
        ELSE Fail(c.b)

\* read_colon
ReadColon(b) ==
    LET c == Consume(b)
    IN  IF ~c.ok THEN Fail(c.b)
        ELSE LET p == Peek(c.b)
             IN  IF ~p.ok THEN Fail(p.b)
                 ELSE IF p.c = "="
                 THEN LET d == Consume(p.b)
                      IN  IF d.ok
                          THEN Return(LexToken(Token("Assign", NoText,
                                                     CurrentLocation(b))),
                                      d.b, queue)
                          ELSE Fail(d.b)
                 ELSE Return(LexToken(Token("Colon", NoText,
                                            CurrentLocation(b))),
                             p.b, queue)

\* read_token, lines 107-126: the peek after the skipping loop and the
\* dispatch on the character. The read_* functions with a loop start here
\* and run on in steps of their own.
ReadToken ==
    /\ lpc = "read_token"
    /\ LET p == Peek(buffer)
       IN  IF ~p.ok THEN Fail(p.b)
           ELSE IF p.c = NoChar THEN Return(LexNone, p.b, queue)
           ELSE IF p.c \in DOMAIN SymbolKind THEN ReadSymbol(SymbolKind[p.c], p.b)
           ELSE IF p.c = ":" THEN ReadColon(p.b)
           ELSE IF p.c = Quote
           THEN LET c == Consume(p.b)
                IN  IF c.ok
                    THEN Goto("read_string", c.b, <<>>, CurrentLocation(p.b))
                    ELSE Fail(c.b)
           ELSE IF IsAsciiDigit(p.c)
           THEN Goto("read_number", p.b, <<>>, CurrentLocation(p.b))
           ELSE IF IsAsciiAlphabetic(p.c)
           THEN Goto("read_identifier", p.b, <<>>, CurrentLocation(p.b))
           ELSE IF IsOperator(p.c)
           THEN Goto("read_operator", p.b, <<>>, CurrentLocation(p.b))
           ELSE Return(LexNone, p.b, queue)

\* read_identifier, lines 147-155: one iteration of the first loop.
ReadIdentifier ==
    /\ lpc = "read_identifier"
    /\ LET p == Peek(buffer)
       IN  IF ~p.ok THEN Fail(p.b)
           ELSE IF p.c # NoChar /\ (IsAsciiAlphanumeric(p.c) \/ p.c = "_")
           THEN LET c == Consume(p.b)
                IN  IF c.ok
                    THEN Goto("read_identifier", c.b, Append(text, p.c), location)
                    ELSE Fail(c.b)
           ELSE Goto("read_identifier_colon", p.b, text, location)

Primitive == <<"p", "r", "i", "m", "i", "t", "i", "v", "e">>

\* read_identifier, lines 157-183: the ':' after the identifier, if any,
\* and the kind of the token.
ReadIdentifierColon ==
    /\ lpc = "read_identifier_colon"
    /\ LET p == Peek(buffer)
       IN  IF ~p.ok THEN Fail(p.b)
           ELSE IF p.c = ":"
           THEN LET c == Consume(p.b)
                IN  IF ~c.ok THEN Fail(c.b)
                    ELSE LET q == Peek(c.b)
                         IN  IF ~q.ok THEN Fail(q.b)
                             ELSE IF q.c # NoChar /\ IsAsciiAlphabetic(q.c)
                             THEN Goto("read_keyword_sequence", q.b,
                                       Append(text, ":"), location)
                             ELSE Return(LexToken(Token("Keyword",
                                             SomeText(Append(text, ":")),
                                             location)),
                                         q.b, queue)
           ELSE IF text = Primitive
           THEN Return(LexToken(Token("Primitive", NoText, location)),
                       p.b, queue)
           ELSE Return(LexToken(Token("Identifier", SomeText(text), location)),
                       p.b, queue)

\* read_identifier, lines 163-173: one iteration of the loop that reads
\* letters and colons into a KeywordSequence.
ReadKeywordSequence ==
    /\ lpc = "read_keyword_sequence"
    /\ LET p == Peek(buffer)
       IN  IF ~p.ok THEN Fail(p.b)
           ELSE IF p.c # NoChar /\ (IsAsciiAlphabetic(p.c) \/ p.c = ":")
           THEN LET c == Consume(p.b)
                IN  IF c.ok
                    THEN Goto("read_keyword_sequence", c.b, Append(text, p.c),
                              location)
                    ELSE Fail(c.b)
           ELSE Return(LexToken(Token("KeywordSequence", SomeText(text),
                                      location)),
                       p.b, queue)

\* read_number, lines 190-198: one iteration of the loop over the digits.
ReadNumber ==
    /\ lpc = "read_number"
    /\ LET p == Peek(buffer)
       IN  IF ~p.ok THEN Fail(p.b)
           ELSE IF p.c # NoChar /\ IsAsciiDigit(p.c)
           THEN LET c == Consume(p.b)
                IN  IF c.ok
                    THEN Goto("read_number", c.b, Append(text, p.c), location)
                    ELSE Fail(c.b)
           ELSE Goto("read_number_period", p.b, text, location)

\* A read_number that takes every '.' after the digits into the number.
MutReadNumberPeriodGreedy ==
    /\ lpc = "read_number_period"
    /\ LET p == Peek(buffer)
       IN  IF ~p.ok THEN Fail(p.b)
           ELSE IF p.c = "."
           THEN LET c == Consume(p.b)
                IN  IF ~c.ok THEN Fail(c.b)
                    ELSE Goto("read_number_fraction", c.b, Append(text, "."),
                              location)
           ELSE Return(LexToken(Token("Integer", SomeText(text), location)),
                       p.b, queue)

\* A read_number that queues the Integer and returns the Period.
MutReadNumberPeriodQueuesInteger ==
    /\ lpc = "read_number_period"
    /\ LET p == Peek(buffer)
       IN  IF ~p.ok THEN Fail(p.b)
           ELSE IF p.c = "."
           THEN LET c == Consume(p.b)
                IN  IF ~c.ok THEN Fail(c.b)
                    ELSE LET q == Peek(c.b)
                         IN  IF ~q.ok THEN Fail(q.b)
                             ELSE IF q.c # NoChar /\ IsAsciiDigit(q.c)
                             THEN Goto("read_number_fraction", q.b,
                                       Append(text, "."), location)
                             ELSE Return(
                                    LexToken(Token("Period", NoText,
                                                   CurrentLocation(p.b))),
                                    q.b,
                                    Append(queue,
                                           Token("Integer", SomeText(text),
                                                 location)))
           ELSE Return(LexToken(Token("Integer", SomeText(text), location)),
                       p.b, queue)

\* read_number, lines 200-228: the '.' after the digits, if any. A '.'
\* with no digit after it is queued as a Period.
ReadNumberPeriod ==
    /\ lpc = "read_number_period"
    /\ LET p == Peek(buffer)
       IN  IF ~p.ok THEN Fail(p.b)
           ELSE IF p.c = "."
           THEN LET c == Consume(p.b)
                IN  IF ~c.ok THEN Fail(c.b)
                    ELSE LET q == Peek(c.b)
                         IN  IF ~q.ok THEN Fail(q.b)
                             ELSE IF q.c # NoChar /\ IsAsciiDigit(q.c)
                             THEN Goto("read_number_fraction", q.b,
                                       Append(text, "."), location)
                             ELSE Return(
                                    LexToken(Token("Integer", SomeText(text),
                                                   location)),
                                    q.b,
                                    Append(queue,
                                           Token("Period", NoText,
                                                 CurrentLocation(p.b))))
           ELSE Return(LexToken(Token("Integer", SomeText(text), location)),
                       p.b, queue)

\* read_number, lines 208-218: one iteration of the loop over the digits
\* of the fraction.
ReadNumberFraction ==
    /\ lpc = "read_number_fraction"
    /\ LET p == Peek(buffer)
       IN  IF ~p.ok THEN Fail(p.b)
           ELSE IF p.c # NoChar /\ IsAsciiDigit(p.c)
           THEN LET c == Consume(p.b)
                IN  IF c.ok
                    THEN Goto("read_number_fraction", c.b, Append(text, p.c),
                              location)
                    ELSE Fail(c.b)
           ELSE Return(LexToken(Token("Double", SomeText(text), location)),
                       p.b, queue)

\* read_operator, lines 257-273: the kind of a single operator character.
OperatorKind ==
    [c \in {"~", "&", "|", "*", "/", Backslash, "+", "=", ">", "<", ",", "@",
            "%", "-"} |->
        CASE c = "~" -> "Not"
          [] c = "&" -> "And"
          [] c = "|" -> "Or"
          [] c = "*" -> "Star"
          [] c = "/" -> "Divide"
          [] c = Backslash -> "Modulus"
          [] c = "+" -> "Plus"
          [] c = "=" -> "Equal"
          [] c = ">" -> "More"
          [] c = "<" -> "Less"
          [] c = "," -> "Comma"
          [] c = "@" -> "At"
          [] c = "%" -> "Percent"
          [] c = "-" -> "Minus"]

\* A read_operator for which three '-' already make a Separator.
MutOperatorTokenShortSeparator(sequence, loc) ==
    IF StringLen(sequence) > 1
    THEN IF (\A i \in 1..Len(sequence) : sequence[i] = "-")
            /\ StringLen(sequence) >= 3
         THEN Token("Separator", NoText, loc)
         ELSE Token("OperatorSequence", SomeText(sequence), loc)
    ELSE Token(OperatorKind[sequence[1]], SomeText(<<sequence[1]>>), loc)

\* read_operator, lines 245-276: the token of a run of operator characters.
OperatorToken(sequence, loc) ==
    IF StringLen(sequence) > 1
    THEN IF (\A i \in 1..Len(sequence) : sequence[i] = "-")
            /\ StringLen(sequence) >= 4
         THEN Token("Separator", NoText, loc)
         ELSE Token("OperatorSequence", SomeText(sequence), loc)
    ELSE Token(OperatorKind[sequence[1]], SomeText(<<sequence[1]>>), loc)

\* read_operator, lines 235-243: one iteration of the loop over the run,
\* and the token when the run ends.
ReadOperator ==
    /\ lpc = "read_operator"
    /\ LET p == Peek(buffer)
       IN  IF ~p.ok THEN Fail(p.b)
           ELSE IF p.c # NoChar /\ IsOperator(p.c)
           THEN LET c == Consume(p.b)
                IN  IF c.ok
                    THEN Goto("read_operator", c.b, Append(text, p.c), location)
                    ELSE Fail(c.b)
           ELSE Return(LexToken(OperatorToken(text, location)), p.b, queue)

\* A read_string_escape that keeps the character of an unknown escape.
MutEscapedCharKeepsOther(c) ==
    CASE c = Quote     -> <<Quote>>
      [] c = Backslash -> <<Backslash>>
      [] c = "b"       -> <<Backspace>>
      [] c = "f"       -> <<FormFeed>>
      [] c = "n"       -> <<Newline>>
      [] c = "r"       -> <<"\r">>
      [] c = "t"       -> <<"\t">>
      [] c = NoChar    -> <<>>
      [] OTHER         -> <<c>>

\* read_string_escape, lines 305-314: the character an escape stands for
\* (a one-element string), or nothing.
EscapedChar(c) ==
    CASE c = Quote     -> <<Quote>>
      [] c = Backslash -> <<Backslash>>
      [] c = "b"       -> <<Backspace>>
      [] c = "f"       -> <<FormFeed>>
      [] c = "n"       -> <<Newline>>
      [] c = "r"       -> <<"\r">>
      [] c = "t"       -> <<"\t">>
      [] OTHER         -> <<>>

\* read_string, lines 285-299: one iteration of the loop, with the call of
\* read_string_escape after a backslash. The loop ends at a quote and at
\* the end of the input (peek gives None) alike.
ReadString ==
    /\ lpc = "read_string"
    /\ LET p == Peek(buffer)
       IN  IF ~p.ok THEN Fail(p.b)
           ELSE LET c == Consume(p.b)
                IN  IF ~c.ok THEN Fail(c.b)
                    ELSE IF p.c = Backslash
                    THEN LET e == Peek(c.b)
                         IN  IF ~e.ok THEN Fail(e.b)
                             ELSE LET d == Consume(e.b)
                                  IN  IF d.ok
                                      THEN Goto("read_string", d.b,
                                                text \o EscapedChar(e.c),
                                                location)
                                      ELSE Fail(d.b)
                    ELSE IF p.c # NoChar /\ p.c # Quote
                    THEN Goto("read_string", c.b, Append(text, p.c), location)
                    ELSE Return(LexToken(Token("String", SomeText(text),
                                               location)),
                                c.b, queue)

\* ---- the inputs of the lexer specification ----
MaxSource == 4

\* How many calls of read_line may succeed before the one that fails.
MaxFailAt == 1

\* The sources are the character sequences of up to MaxSource characters
\* over one of these alphabets: comments and a character that starts no
\* token; strings and escapes; numbers; identifiers and keywords;
\* operators and symbols.
CommentAlphabet == {"a", DoubleQuote, Newline, "$"}

StringAlphabet == {"a", Quote, Backslash, Newline}

NumberAlphabet == {"1", ".", " ", "a"}

KeywordAlphabet == {"a", ":", "=", "1"}

OperatorAlphabet == {"-", "+", "(", " "}

\* String literals of up to MaxEscapeItems items, an item being a plain
\* character or a backslash and the character it escapes.
MaxEscapeItems == 2

EscapeItems ==
    {<<"a">>, <<Newline>>}
    \cup {<<Backslash, c>> :
            c \in {Quote, Backslash, "b", "f", "n", "r", "t", "a"}}

EscapeSources ==
    {<<Quote>> \o Flatten(items) \o <<Quote>> :
        items \in SeqsUpTo(EscapeItems, MaxEscapeItems)}

\* A string literal or a comment holding a two-byte character, followed by
\* up to MaxRest more characters.
MaxRest == 2

UnicodeLiterals ==
    {<<Quote, EAcute, Quote>>, <<DoubleQuote, EAcute, DoubleQuote>>}

UnicodeSources ==
    {lit \o rest : lit \in UnicodeLiterals,
                   rest \in SeqsUpTo({"a", " ", Newline}, MaxRest)}

LexSources ==
    EscapeSources
    \cup UnicodeSources
    \cup SeqsUpTo(CommentAlphabet, MaxSource)
    \cup SeqsUpTo(StringAlphabet, MaxSource)
    \cup SeqsUpTo(NumberAlphabet, MaxSource)
    \cup SeqsUpTo(KeywordAlphabet, MaxSource)
    \cup SeqsUpTo(OperatorAlphabet, MaxSource)

\* The sources read through a reader whose read_line fails once.
FailingAlphabet == {"a", Newline}

FailingSources == SeqsUpTo(FailingAlphabet, MaxSource)

\* The lexer variables while another component runs.
LexIdle ==
    /\ source = <<>>
    /\ buffer = NewBuffer(<<>>, -1)
    /\ queue = <<>>
    /\ lpc = "idle"
    /\ text = <<>>
    /\ location = NoLocation
    /\ lexLast = LexStart
    /\ lexOut = <<>>

\* Lexer::new over a reader of the source.
LexInit ==
    /\ \/ /\ source \in LexSources
          /\ buffer = NewBuffer(source, -1)
       \/ /\ source \in FailingSources
          /\ \E failAt \in 0..MaxFailAt : buffer = NewBuffer(source, failAt)
    /\ queue = <<>>
    /\ lpc = "idle"
    /\ text = <<>>
    /\ location = NoLocation
    /\ lexLast = LexStart
    /\ lexOut = <<>>

\* The steps of a running call of next().
LexStep ==
    \/ SkipWhitespace
    \/ SkipComment
    \/ ReadToken
    \/ ReadIdentifier
    \/ ReadIdentifierColon
    \/ ReadKeywordSequence
    \/ ReadNumber
    \/ ReadNumberPeriod
    \/ ReadNumberFraction
    \/ ReadOperator
    \/ ReadString

LexNext ==
    \/ Lexer_next
    \/ SkipWhitespace
    \/ SkipComment
    \/ ReadToken
    \/ ReadIdentifier
    \/ ReadIdentifierColon
    \/ ReadKeywordSequence
    \/ ReadNumber
    \/ ReadNumberPeriod
    \/ ReadNumberFraction
    \/ ReadOperator
    \/ ReadString


(***************************************************************************)
(* Parser: src/compiler/parser.rs                                          *)
(*                                                                         *)
(* The parser reads the items of Peekable<Lexer>: tokens, and Err(e) where *)
(* a read failed, then None for ever. Every parse function is an operator  *)
(* from the parser's state to a result that carries the state left behind; *)
(* a `?` hands a result that is not Ok to the caller. A panic              *)
(* (unreachable!, unwrap on None or Err) is the result Panic.              *)
(***************************************************************************)
Filename == "test"

\* The item of the lexer that is Some(Err(e)).
IoErrorItem == Token("IoError", NoText, NoLocation)

\* BINARY_OPERATORS (token.rs) and TokenKind::is_binary_operator
BinaryOperators ==
    {"And", "At", "Comma", "Divide", "Equal", "Less", "Minus", "Modulus",
     "More", "Not", "Or", "Percent", "Plus", "Star"}

IsBinaryOperator(kind) == kind \in BinaryOperators

\* SYMBOL_KINDS
SymbolKinds ==
    {"Identifier", "String", "Keyword", "KeywordSequence", "OperatorSequence"}
    \cup BinaryOperators

\* struct Parser: the items the lexer has still to give, last_location, and
\* (ghost) whether the lexer has handed the parser an Err item.
NewParser(items) ==
    [lexer |-> items, last_location |-> Location(1, 0), io_seen |-> FALSE]

\* The description of an Error::ParseError, and the message of a panic.
NoDescription == [msg |-> ""]

UnexpectedEnd == [msg |-> "Unexpected end of program"]

Expected(expected, found) ==
    [msg |-> "Expected, found", expected |-> expected,
     found |-> found]

AssignToNonVariable ==
    [msg |-> "Attempt to assign result of expression to something other than a variable"]

Unreachable == [msg |-> "internal error: entered unreachable code"]

UnknownExpressionToken(k) ==
    [msg |-> "internal error: entered unreachable code: Unknown expression token",
     found |-> k]

UnwrapOnErr == [msg |-> "called Result::unwrap() on an Err value"]

\* Result<T>: Ok(value), Err(Error::ParseError{..}), Err(Error::IoError(e)),
\* or a panic; ps is the parser afterwards.
Ok(value, ps) ==
    [tag |-> "Ok", value |-> value, ps |-> ps,
     description |-> NoDescription, filename |-> "", location |-> NoLocation]

ParseError(description, loc, ps) ==
    [tag |-> "ParseError", value |-> <<>>, ps |-> ps,
     description |-> description, filename |-> Filename, location |-> loc]

IoError(ps) ==
    [tag |-> "IoError", value |-> <<>>, ps |-> ps,
     description |-> NoDescription, filename |-> "", location |-> NoLocation]

Panic(description, ps) ==
    [tag |-> "Panic", value |-> <<>>, ps |-> ps,
     description |-> description, filename |-> "", location |-> NoLocation]


\* peek_token_kind: the kind of Some(Ok(t)); for None and for Some(Err(e))
\* alike, the ParseError "Unexpected end of program".
PeekTokenKind(ps) ==
    IF ps.lexer # <<>> /\ Head(ps.lexer).kind # "IoError"
    THEN Ok(Head(ps.lexer).kind, ps)
    ELSE ParseError(UnexpectedEnd, ps.last_location,
                    [ps EXCEPT !.io_seen = @ \/ ps.lexer # <<>>])

\* An expect_token_one_of that reports an unexpected token at the location
\* of the token before it.
MutExpectReportsLastLocation(ps, expected) ==
    IF ps.lexer = <<>>
    THEN ParseError(UnexpectedEnd, ps.last_location, ps)
    ELSE LET t == Head(ps.lexer)
         IN  IF t.kind = "IoError"
             THEN IoError([ps EXCEPT !.lexer = Tail(@), !.io_seen = TRUE])
             ELSE LET after == [ps EXCEPT !.lexer = Tail(@),
                                          !.last_location = t.location]
                  IN  IF t.kind \in expected
                      THEN Ok(t, after)
                      ELSE ParseError(Expected(expected, t.kind),
                                      ps.last_location, after)

\* expect_token_one_of
ExpectTokenOneOf(ps, expected) ==
    IF ps.lexer = <<>>
    THEN ParseError(UnexpectedEnd, ps.last_location, ps)
    ELSE LET t == Head(ps.lexer)
         IN  IF t.kind = "IoError"
             THEN IoError([ps EXCEPT !.lexer = Tail(@), !.io_seen = TRUE])
             ELSE LET after == [ps EXCEPT !.lexer = Tail(@),
                                          !.last_location = t.location]
                  IN  IF t.kind \in expected
                      THEN Ok(t, after)
                      ELSE ParseError(Expected(expected, t.kind), t.location,
                                      after)

\* expect_token
ExpectToken(ps, kind) == ExpectTokenOneOf(ps, {kind})

\* Option::unwrap on the text of a token
Unwrap(txt) == txt[1]

\* ---- ast::Expression ----
Assignment(variable, value) ==
    [node |-> "Assignment", variable |-> variable, value |-> value]

BinaryMessage(message, left, right) ==
    [node |-> "BinaryMessage", message |-> message, left |-> left,
     right |-> right]

Block(parameters, locals, body) ==
    [node |-> "Block", parameters |-> parameters, locals |-> locals,
     body |-> body]

KeywordMessage(receiver, message, parameters) ==
    [node |-> "KeywordMessage", receiver |-> receiver, message |-> message,
     parameters |-> parameters]

UnaryMessage(receiver, message) ==
    [node |-> "UnaryMessage", receiver |-> receiver, message |-> message]

LiteralArray(values) == [node |-> "LiteralArray", values |-> values]

LiteralBoolean(b) == [node |-> "LiteralBoolean", bool |-> b]

LiteralDouble(negative, digits) ==
    [node |-> "LiteralDouble", negative |-> negative, digits |-> digits]

LiteralInteger(negative, digits) ==
    [node |-> "LiteralInteger", negative |-> negative, digits |-> digits]

LiteralNil == [node |-> "LiteralNil"]

LiteralString(s) == [node |-> "LiteralString", string |-> s]

LiteralSymbol(s) == [node |-> "LiteralSymbol", symbol |-> s]

ReturnExpression(value) == [node |-> "Return", value |-> value]

Variable(name) == [node |-> "Variable", name |-> name]

\* ---- str::parse::<i64> ----
\* A decimal numeral without its leading zeros ("0" is the empty numeral).
RECURSIVE StripZeros(_)
StripZeros(digits) ==
    IF digits # <<>> /\ Head(digits) = "0" THEN StripZeros(Tail(digits))
    ELSE digits

DigitValue(d) ==
    CASE d = "0" -> 0 [] d = "1" -> 1 [] d = "2" -> 2 [] d = "3" -> 3
      [] d = "4" -> 4 [] d = "5" -> 5 [] d = "6" -> 6 [] d = "7" -> 7
      [] d = "8" -> 8 [] d = "9" -> 9

\* i64::MAX, 2^63 - 1, as a numeral
I64Max ==
    <<"9", "2", "2", "3", "3", "7", "2", "0", "3", "6", "8", "5", "4", "7",
      "7", "5", "8", "0", "7">>

\* a <= b for numerals of the same length
RECURSIVE NumeralLeq(_, _)
NumeralLeq(a, b) ==
    IF a = <<>> THEN TRUE
    ELSE IF DigitValue(Head(a)) # DigitValue(Head(b))
    THEN DigitValue(Head(a)) < DigitValue(Head(b))
    ELSE NumeralLeq(Tail(a), Tail(b))

\* Whether text.parse::<i64>() is Ok: the digits denote a value <= i64::MAX.
FitsI64(digits) ==
    LET n == StripZeros(digits)
    IN  \/ Len(n) < Len(I64Max)
        \/ Len(n) = Len(I64Max) /\ NumeralLeq(n, I64Max)

\* The `?` operator: an Err (or a panic) is what the function returns,
\* an Ok value is what the rest of the function goes on with.
Then(r, rest(_)) == IF r.tag # "Ok" THEN r ELSE rest(r)

\* A result that the function matches on itself.
Match(r, rest(_)) == rest(r)

RECURSIVE ParseExpression(_)

\* parse_block_parameters: the while loop, then the '|' that ends a
\* non-empty list.
RECURSIVE ParseBlockParametersLoop(_, _)
ParseBlockParametersLoop(ps, parameters) ==
    Then(PeekTokenKind(ps), LAMBDA k :
    IF k.value = "Colon"
    THEN Then(ExpectToken(ps, "Colon"), LAMBDA c :
         Then(ExpectToken(c.ps, "Identifier"), LAMBDA i :
         ParseBlockParametersLoop(i.ps,
                                  Append(parameters, Unwrap(i.value.text)))))
    ELSE Ok(parameters, ps))

ParseBlockParameters(ps) ==
    Then(ParseBlockParametersLoop(ps, <<>>), LAMBDA l :
    IF l.value # <<>>
    THEN Then(ExpectToken(l.ps, "Or"), LAMBDA o : Ok(l.value, o.ps))
    ELSE l)

\* parse_locals: the peeks are `if let Ok(..)` and `while let Ok(..)`, so a
\* peek that fails is taken as "no locals" / "no more names".
RECURSIVE ParseLocalsLoop(_, _)
ParseLocalsLoop(ps, locals) ==
    Match(PeekTokenKind(ps), LAMBDA k :
    IF k.tag = "Ok" /\ k.value = "Identifier"
    THEN Then(ExpectToken(k.ps, "Identifier"), LAMBDA i :
         ParseLocalsLoop(i.ps, Append(locals, Unwrap(i.value.text))))
    ELSE Ok(locals, k.ps))

ParseLocals(ps) ==
    Match(PeekTokenKind(ps), LAMBDA k :
    IF k.tag = "Ok" /\ k.value = "Or"
    THEN Then(ExpectToken(k.ps, "Or"), LAMBDA o :
         Then(ParseLocalsLoop(o.ps, <<>>), LAMBDA l :
         Then(ExpectToken(l.ps, "Or"), LAMBDA c :
         Ok(l.value, c.ps))))
    ELSE Ok(<<>>, k.ps))

\* parse_expression_number
ParseExpressionNumber(ps, negative) ==
    Then(ExpectTokenOneOf(ps, {"Integer", "Double"}), LAMBDA t :
    IF t.value.kind = "Integer" /\ t.value.text # NoText
    THEN IF FitsI64(Unwrap(t.value.text))
         THEN Ok(LiteralInteger(negative
                                /\ StripZeros(Unwrap(t.value.text)) # <<>>,
                                StripZeros(Unwrap(t.value.text))),
                 t.ps)
         ELSE Panic(UnwrapOnErr, t.ps)
    ELSE IF t.value.kind = "Double" /\ t.value.text # NoText
    THEN Ok(LiteralDouble(negative, Unwrap(t.value.text)), t.ps)
    ELSE Panic(Unreachable, t.ps))

\* parse_expression_negative_number
ParseExpressionNegativeNumber(ps) ==
    Then(ExpectToken(ps, "Minus"), LAMBDA m :
    ParseExpressionNumber(m.ps, TRUE))

\* parse_expression_identifier
ParseExpressionIdentifier(ps) ==
    Then(ExpectToken(ps, "Identifier"), LAMBDA t :
    CASE Unwrap(t.value.text) = <<"f", "a", "l", "s", "e">> ->
           Ok(LiteralBoolean(FALSE), t.ps)
      [] Unwrap(t.value.text) = <<"n", "i", "l">> -> Ok(LiteralNil, t.ps)
      [] Unwrap(t.value.text) = <<"t", "r", "u", "e">> ->
           Ok(LiteralBoolean(TRUE), t.ps)
      [] OTHER -> Ok(Variable(Unwrap(t.value.text)), t.ps))

\* parse_expression_string
ParseExpressionString(ps) ==
    Then(ExpectToken(ps, "String"), LAMBDA t :
    Ok(LiteralString(Unwrap(t.value.text)), t.ps))

\* parse_expression_symbol
ParseExpressionSymbol(ps) ==
    Then(ExpectTokenOneOf(ps, SymbolKinds), LAMBDA t :
    Ok(LiteralSymbol(Unwrap(t.value.text)), t.ps))

\* parse_expression_unary_message
ParseExpressionUnaryMessage(ps, value) ==
    Then(ExpectToken(ps, "Identifier"), LAMBDA t :
    Ok(UnaryMessage(value, Unwrap(t.value.text)), t.ps))

\* parse_expression_array: the loop, then the ')'.
RECURSIVE ParseExpressionArrayLoop(_, _)
ParseExpressionArrayLoop(ps, values) ==
    Then(PeekTokenKind(ps), LAMBDA k :
    IF k.value = "EndTerm" THEN Ok(values, ps)
    ELSE Then(ParseExpression(ps), LAMBDA e :
         ParseExpressionArrayLoop(e.ps, Append(values, e.value))))

ParseExpressionArray(ps) ==
    Then(ExpectToken(ps, "NewTerm"), LAMBDA o :
    Then(ParseExpressionArrayLoop(o.ps, <<>>), LAMBDA l :
    Then(ExpectToken(l.ps, "EndTerm"), LAMBDA c :
    Ok(LiteralArray(l.value), c.ps))))

\* parse_expression_pound
ParseExpressionPound(ps) ==
    Then(ExpectToken(ps, "Pound"), LAMBDA p :
    Then(PeekTokenKind(p.ps), LAMBDA k :
    IF k.value = "NewTerm" THEN ParseExpressionArray(p.ps)
    ELSE ParseExpressionSymbol(p.ps)))

\* parse_expression_result
ParseExpressionResult(ps) ==
    Then(ExpectToken(ps, "Exit"), LAMBDA x :
    Then(ParseExpression(x.ps), LAMBDA e :
    Ok(ReturnExpression(e.value), e.ps)))

\* parse_body: the statement of one iteration of the loop
ParseStatement(ps, kind) ==
    IF kind = "Exit" THEN ParseExpressionResult(ps) ELSE ParseExpression(ps)

\* parse_body: one iteration of the loop per call.
RECURSIVE ParseBodyLoop(_, _)
ParseBodyLoop(ps, expressions) ==
    Then(PeekTokenKind(ps), LAMBDA k :
    IF k.value \in {"EndTerm", "EndBlock"} THEN Ok(expressions, ps)
    ELSE Then(ParseStatement(ps, k.value), LAMBDA e :
         Then(PeekTokenKind(e.ps), LAMBDA p :
         IF p.value = "Period"
         THEN Then(ExpectToken(e.ps, "Period"), LAMBDA d :
              ParseBodyLoop(d.ps, Append(expressions, e.value)))
         ELSE ParseBodyLoop(e.ps, Append(expressions, e.value)))))

ParseBody(ps) == ParseBodyLoop(ps, <<>>)

\* parse_expression_nested_block
ParseExpressionNestedBlock(ps) ==
    Then(ExpectToken(ps, "NewBlock"), LAMBDA o :
    Then(ParseBlockParameters(o.ps), LAMBDA p :
    Then(ParseLocals(p.ps), LAMBDA l :
    Then(ParseBody(l.ps), LAMBDA b :
    Then(ExpectToken(b.ps, "EndBlock"), LAMBDA c :
    Ok(Block(p.value, l.value, b.value), c.ps))))))

\* parse_expression_nested_term
ParseExpressionNestedTerm(ps) ==
    Then(ExpectToken(ps, "NewTerm"), LAMBDA o :
    Then(ParseExpression(o.ps), LAMBDA e :
    Then(ExpectToken(e.ps, "EndTerm"), LAMBDA c :
    Ok(e.value, c.ps))))

\* parse_expression_primary
ParseExpressionPrimary(ps) ==
    Then(PeekTokenKind(ps), LAMBDA k :
    CASE k.value = "Double" -> ParseExpressionNumber(ps, FALSE)
      [] k.value = "Identifier" -> ParseExpressionIdentifier(ps)
      [] k.value = "Integer" -> ParseExpressionNumber(ps, FALSE)
      [] k.value = "Minus" -> ParseExpressionNegativeNumber(ps)
      [] k.value = "NewBlock" -> ParseExpressionNestedBlock(ps)
      [] k.value = "NewTerm" -> ParseExpressionNestedTerm(ps)
      [] k.value = "Pound" -> ParseExpressionPound(ps)
      [] k.value = "String" -> ParseExpressionString(ps)
      [] OTHER -> Panic(UnknownExpressionToken(k.value), ps))

\* parse_expression_binary_operand: a primary, then the while loop over
\* unary messages.
RECURSIVE ParseExpressionBinaryOperandLoop(_, _)
ParseExpressionBinaryOperandLoop(ps, value) ==
    Then(PeekTokenKind(ps), LAMBDA k :
    IF k.value = "Identifier"
    THEN Then(ParseExpressionUnaryMessage(ps, value), LAMBDA u :
         ParseExpressionBinaryOperandLoop(u.ps, u.value))
    ELSE Ok(value, ps))

\* A binary operand that takes no unary message: unary messages would bind
\* no tighter than binary ones.
MutBinaryOperandPrimaryOnly(ps) == ParseExpressionPrimary(ps)

ParseExpressionBinaryOperand(ps) ==
    Then(ParseExpressionPrimary(ps), LAMBDA p :
    ParseExpressionBinaryOperandLoop(p.ps, p.value))

\* parse_expression_binary_message
ParseExpressionBinaryMessage(ps, left) ==
    Then(PeekTokenKind(ps), LAMBDA k :
    Then(ExpectToken(ps, k.value), LAMBDA m :
    Then(ParseExpressionBinaryOperand(m.ps), LAMBDA r :
    Ok(BinaryMessage(Unwrap(m.value.text), left, r.value), r.ps))))

\* parse_expression_formula: a binary operand, then the loop over binary
\* messages.
RECURSIVE ParseExpressionFormulaLoop(_, _)
ParseExpressionFormulaLoop(ps, value) ==
    Then(PeekTokenKind(ps), LAMBDA k :
    IF k.value = "OperatorSequence" \/ IsBinaryOperator(k.value)
    THEN Then(ParseExpressionBinaryMessage(ps, value), LAMBDA b :
         ParseExpressionFormulaLoop(b.ps, b.value))
    ELSE Ok(value, ps))

\* A keyword argument parsed as a whole expression instead of a formula.
MutFormulaIsExpression(ps) == ParseExpression(ps)

ParseExpressionFormula(ps) ==
    Then(ParseExpressionBinaryOperand(ps), LAMBDA o :
    ParseExpressionFormulaLoop(o.ps, o.value))

\* parse_expression_keyword_message: the while loop, then the message.
RECURSIVE ParseExpressionKeywordMessageLoop(_, _, _, _)
ParseExpressionKeywordMessageLoop(ps, value, message, parameters) ==
    Then(PeekTokenKind(ps), LAMBDA k :
    IF k.value = "Keyword"
    THEN Then(ExpectToken(ps, "Keyword"), LAMBDA w :
         Then(ParseExpressionFormula(w.ps), LAMBDA f :
         ParseExpressionKeywordMessageLoop(f.ps, value,
                                           message \o Unwrap(w.value.text),
                                           Append(parameters, f.value))))
    ELSE Ok(KeywordMessage(value, message, parameters), ps))

ParseExpressionKeywordMessage(ps, value) ==
    ParseExpressionKeywordMessageLoop(ps, value, <<>>, <<>>)

\* parse_expression_messages
ParseExpressionMessages(ps, value) ==
    Then(PeekTokenKind(ps), LAMBDA k :
    CASE k.value = "Identifier" -> ParseExpressionUnaryMessage(ps, value)
      [] k.value = "Keyword" -> ParseExpressionKeywordMessage(ps, value)
      [] k.value = "OperatorSequence" \/ IsBinaryOperator(k.value) ->
           ParseExpressionBinaryMessage(ps, value)
      [] OTHER -> Panic(Unreachable, ps))

\* An assignment whose right-hand side is one primary, not an expression.
MutAssignmentOfPrimary(ps, left) ==
    Then(ExpectToken(ps, "Assign"), LAMBDA t :
    IF left.node = "Variable"
    THEN Then(ParseExpressionPrimary(t.ps), LAMBDA r :
         Ok(Assignment(left.name, r.value), r.ps))
    ELSE ParseError(AssignToNonVariable, t.value.location, t.ps))

\* parse_expression_assignment
ParseExpressionAssignment(ps, left) ==
    Then(ExpectToken(ps, "Assign"), LAMBDA t :
    IF left.node = "Variable"
    THEN Then(ParseExpression(t.ps), LAMBDA r :
         Ok(Assignment(left.name, r.value), r.ps))
    ELSE ParseError(AssignToNonVariable, t.value.location, t.ps))

\* parse_expression: one iteration of the loop, the expression extended
ParseExpressionStep(ps, kind, expression) ==
    IF kind = "Assign" THEN ParseExpressionAssignment(ps, expression)
    ELSE ParseExpressionMessages(ps, expression)

\* parse_expression: a primary, then the loop that extends it.
RECURSIVE ParseExpressionLoop(_, _)
ParseExpressionLoop(ps, expression) ==
    Then(PeekTokenKind(ps), LAMBDA k :
    IF \/ k.value \in {"Assign", "Identifier", "Keyword", "OperatorSequence"}
       \/ IsBinaryOperator(k.value)
    THEN Then(ParseExpressionStep(ps, k.value, expression), LAMBDA x :
         ParseExpressionLoop(x.ps, x.value))
    ELSE Ok(expression, ps))

ParseExpression(ps) ==
    Then(ParseExpressionPrimary(ps), LAMBDA p :
    ParseExpressionLoop(p.ps, p.value))

\* ---- ast::Method, ast::Class ----
MethodPrimitive(name, parameters) ==
    [method |-> "Primitive", name |-> name, parameters |-> parameters]

MethodNative(name, parameters, locals, body) ==
    [method |-> "Native", name |-> name, parameters |-> parameters,
     locals |-> locals, body |-> body]

Class(name, superclass, class_methods, class_vars, instance_methods, instance_vars) ==
    [name |-> name, superclass |-> superclass,
     class_methods |-> class_methods, class_variables |-> class_vars,
     instance_methods |-> instance_methods,
     instance_variables |-> instance_vars]

\* HashMap::new and HashMap::insert
NewHashMap == [n \in {} |-> NoToken]

\* An insert that keeps the value a key already has.
MutInsertKeepsFirst(map, key, value) ==
    [n \in DOMAIN map \cup {key} |-> IF n \in DOMAIN map THEN map[n] ELSE value]

Insert(map, key, value) ==
    [n \in DOMAIN map \cup {key} |-> IF n = key THEN value ELSE map[n]]

\* The (String, Vec<String>) of a pattern
Pattern(name, parameters) == [name |-> name, parameters |-> parameters]

\* parse_unary_pattern
ParseUnaryPattern(ps) ==
    Then(ExpectToken(ps, "Identifier"), LAMBDA t :
    Ok(Pattern(Unwrap(t.value.text), <<>>), t.ps))

\* parse_keyword_pattern: the first keyword and parameter, then the loop.
RECURSIVE ParseKeywordPatternLoop(_, _, _)
ParseKeywordPatternLoop(ps, name, parameters) ==
    Then(PeekTokenKind(ps), LAMBDA k :
    IF k.value = "Keyword"
    THEN Then(ExpectToken(ps, "Keyword"), LAMBDA w :
         Then(ExpectToken(w.ps, "Identifier"), LAMBDA i :
         ParseKeywordPatternLoop(i.ps, name \o Unwrap(w.value.text),
                                 Append(parameters, Unwrap(i.value.text)))))
    ELSE Ok(Pattern(name, parameters), ps))

ParseKeywordPattern(ps) ==
    Then(ExpectToken(ps, "Keyword"), LAMBDA w :
    Then(ExpectToken(w.ps, "Identifier"), LAMBDA i :
    ParseKeywordPatternLoop(i.ps, Unwrap(w.value.text),
                            <<Unwrap(i.value.text)>>)))

\* A binary pattern that forgets its parameter.
MutBinaryPatternNoParameter(ps) ==
    Then(PeekTokenKind(ps), LAMBDA k :
    Then(ExpectToken(ps, k.value), LAMBDA m :
    Then(ExpectToken(m.ps, "Identifier"), LAMBDA i :
    Ok(Pattern(Unwrap(m.value.text), <<>>), i.ps))))

\* parse_binary_pattern
ParseBinaryPattern(ps) ==
    Then(PeekTokenKind(ps), LAMBDA k :
    Then(ExpectToken(ps, k.value), LAMBDA m :
    Then(ExpectToken(m.ps, "Identifier"), LAMBDA i :
    Ok(Pattern(Unwrap(m.value.text), <<Unwrap(i.value.text)>>), i.ps))))

\* parse_pattern
ParsePattern(ps) ==
    Then(PeekTokenKind(ps), LAMBDA k :
    CASE k.value = "Identifier" -> ParseUnaryPattern(ps)
      [] k.value = "Keyword" -> ParseKeywordPattern(ps)
      [] k.value = "OperatorSequence" \/ IsBinaryOperator(k.value) ->
           ParseBinaryPattern(ps)
      [] OTHER -> Panic(Unreachable, ps))

\* parse_method: the Native branch, from the '(' on.
ParseMethodNative(ps, name, parameters) ==
    Then(ExpectToken(ps, "NewTerm"), LAMBDA o :
    Then(ParseLocals(o.ps), LAMBDA l :
    Then(ParseBody(l.ps), LAMBDA b :
    Then(ExpectToken(b.ps, "EndTerm"), LAMBDA c :
    Ok(MethodNative(name, parameters, l.value, b.value), c.ps)))))

\* parse_method
ParseMethod(ps) ==
    Then(ParsePattern(ps), LAMBDA p :
    Then(ExpectToken(p.ps, "Equal"), LAMBDA e :
    Then(PeekTokenKind(e.ps), LAMBDA k :
    IF k.value = "Primitive"
    THEN Then(ExpectToken(e.ps, "Primitive"), LAMBDA r :
         Ok(MethodPrimitive(p.value.name, p.value.parameters), r.ps))
    ELSE ParseMethodNative(e.ps, p.value.name, p.value.parameters))))

\* parse_methods: one iteration of the loop per call.
RECURSIVE ParseMethodsLoop(_, _)
ParseMethodsLoop(ps, methods) ==
    Then(PeekTokenKind(ps), LAMBDA k :
    IF \/ k.value \in {"Identifier", "Keyword", "OperatorSequence"}
       \/ IsBinaryOperator(k.value)
    THEN Then(ParseMethod(ps), LAMBDA m :
         ParseMethodsLoop(m.ps, Insert(methods, m.value.name, m.value)))
    ELSE Ok(methods, ps))

ParseMethods(ps) == ParseMethodsLoop(ps, NewHashMap)

\* parse: the class side, from the peek for the separator on.
ParseClassSide(ps) ==
    Match(PeekTokenKind(ps), LAMBDA k :
    IF k.tag = "Ok" /\ k.value = "Separator"
    THEN Then(ExpectToken(k.ps, "Separator"), LAMBDA s :
         Then(ParseLocals(s.ps), LAMBDA v :
         Then(ParseMethods(v.ps), LAMBDA m :
         Ok([class_variables |-> v.value, class_methods |-> m.value],
            m.ps))))
    ELSE Ok([class_variables |-> <<>>, class_methods |-> NewHashMap], k.ps))

\* parse: the superclass
ParseSuperclass(ps) ==
    Then(PeekTokenKind(ps), LAMBDA k :
    IF k.value = "Identifier"
    THEN Then(ExpectToken(ps, "Identifier"), LAMBDA t :
         Ok(t.value.text, t.ps))
    ELSE Ok(NoText, ps))

\* A parse that gives the class the variables of the instance side and the
\* other way round.
MutParseSwapsVariables(ps) ==
    Then(ExpectToken(ps, "Identifier"), LAMBDA n :
    Then(ExpectToken(n.ps, "Equal"), LAMBDA e :
    Then(ParseSuperclass(e.ps), LAMBDA s :
    Then(ExpectToken(s.ps, "NewTerm"), LAMBDA o :
    Then(ParseLocals(o.ps), LAMBDA v :
    Then(ParseMethods(v.ps), LAMBDA m :
    Then(ParseClassSide(m.ps), LAMBDA c :
    Ok(Class(Unwrap(n.value.text), s.value, c.value.class_methods,
             v.value, m.value, c.value.class_variables),
       c.ps))))))))

\* parse
Parse(ps) ==
    Then(ExpectToken(ps, "Identifier"), LAMBDA n :
    Then(ExpectToken(n.ps, "Equal"), LAMBDA e :
    Then(ParseSuperclass(e.ps), LAMBDA s :
    Then(ExpectToken(s.ps, "NewTerm"), LAMBDA o :
    Then(ParseLocals(o.ps), LAMBDA v :
    Then(ParseMethods(v.ps), LAMBDA m :
    Then(ParseClassSide(m.ps), LAMBDA c :
    Ok(Class(Unwrap(n.value.text), s.value, c.value.class_methods,
             c.value.class_variables, m.value, v.value),
       c.ps))))))))

\* What a call of parse, parse_method or parse_expression gave its caller.
NoResult ==
    [tag |-> "Start", value |-> <<>>, description |-> NoDescription,
     filename |-> "", location |-> NoLocation]

ResultOf(r) ==
    [tag |-> r.tag, value |-> r.value, description |-> r.description,
     filename |-> r.filename, location |-> r.location]

\* A parse function returns r to the test or program that called it.
Call(fn, r) ==
    /\ pcalled' = fn
    /\ parser' = r.ps
    /\ presult' = ResultOf(r)
    /\ UNCHANGED <<ptokens, bcVars, lexVars, uniVars>>

\* One parse function is called on a parser, as the tests and bin/parser.rs
\* do.
Parser_parse ==
    /\ pcalled = "none"
    /\ Call("parse", Parse(parser))

Parser_parse_method ==
    /\ pcalled = "none"
    /\ Call("parse_method", ParseMethod(parser))

Parser_parse_expression ==
    /\ pcalled = "none"
    /\ Call("parse_expression", ParseExpression(parser))

\* ---- inputs: the items of lexers over small sources, one token a line ----
MaxTokens == 3

Tok(kind, chars) == Token(kind, SomeText(chars), NoLocation)

Sym(kind) == Token(kind, NoText, NoLocation)

ExpressionTokens ==
    {Tok("Identifier", <<"a">>), Tok("Integer", <<"1">>), Sym("Period"),
     Tok("Plus", <<"+">>), Tok("Keyword", <<"k", ":">>), Sym("Assign")}

StatementTokens ==
    {Tok("Identifier", <<"a">>), Sym("Exit"), Sym("NewTerm"), Sym("EndTerm"),
     Sym("Colon"), Tok("OperatorSequence", <<"+", "+">>)}

BlockTokens ==
    {Tok("Identifier", <<"a">>), Sym("NewBlock"), Sym("EndBlock"),
     Sym("Colon"), Tok("Or", <<"|">>), Sym("Pound")}

LiteralTokens ==
    {Tok("Integer", Append(SubSeq(I64Max, 1, 18), "8")),
     Tok("Integer", <<"0">>), Tok("Double", <<"1", ".", "5">>),
     Tok("Minus", <<"-">>), Tok("String", <<"s">>),
     Tok("KeywordSequence", <<"k", ":", "k", ":">>)}

ClassTokens ==
    {Tok("Identifier", <<"a">>), Tok("Equal", <<"=">>), Sym("NewTerm"),
     Sym("EndTerm"), Sym("Primitive"), Sym("Separator")}

FailingTokens == {Tok("Identifier", <<"a">>), Tok("Or", <<"|">>), IoErrorItem}

\* The token the lexer gives for the i-th line of a source holding one
\* token a line.
RECURSIVE Located(_, _)
Located(items, line) ==
    IF items = <<>> THEN <<>>
    ELSE <<IF Head(items).kind = "IoError" THEN Head(items)
           ELSE [Head(items) EXCEPT !.location = Location(line, 0)]>>
         \o Located(Tail(items), line + 1)

\* m = ( body )
AsMethod(body) ==
    <<Tok("Identifier", <<"m">>), Tok("Equal", <<"=">>), Sym("NewTerm")>>
    \o body \o <<Sym("EndTerm")>>

\* C = ( m = ( body ) )
AsClass(body) ==
    <<Tok("Identifier", <<"C">>), Tok("Equal", <<"=">>), Sym("NewTerm")>>
    \o AsMethod(body) \o <<Sym("EndTerm")>>

\* Sentences of the three kinds of message: p [u] op q [v] [k: r] .
Operands == {Tok("Identifier", <<"a">>), Tok("Integer", <<"1">>)}

UnarySelectors == {Tok("Identifier", <<"u">>), Tok("Identifier", <<"v">>)}

OptionalUnary == {<<>>} \cup {<<u>> : u \in UnarySelectors}

BinarySelectors ==
    {Tok("Plus", <<"+">>), Tok("OperatorSequence", <<"+", "+">>)}

KeywordK == Tok("Keyword", <<"k", ":">>)

OptionalKeyword == {<<>>} \cup {<<KeywordK, r>> : r \in Operands}

PrecedenceSentence(p, u, op, q, v, k) ==
    <<p>> \o u \o <<op, q>> \o v \o k \o <<Sym("Period")>>

PrecedenceSentences ==
    {PrecedenceSentence(p, u, op, q, v, k) :
        p \in Operands, u \in OptionalUnary, op \in BinarySelectors,
        q \in Operands, v \in OptionalUnary, k \in OptionalKeyword}

\* Sentences of keyword messages: p k: f [j: g] . with formulas f and g,
\* and every sentence of up to MaxKeywordTokens tokens of KeywordTokens.
KeywordSelectors == {KeywordK, Tok("Keyword", <<"j", ":">>)}

Formulas ==
    {<<x>> : x \in Operands}
    \cup {<<Tok("Identifier", <<"a">>), Tok("Identifier", <<"u">>)>>,
          <<Tok("Identifier", <<"a">>), Tok("Plus", <<"+">>),
            Tok("Integer", <<"1">>)>>}

KeywordParts == {<<k>> \o f : k \in KeywordSelectors, f \in Formulas}

KeywordSentence(p, first, second) ==
    <<p>> \o first \o second \o <<Sym("Period")>>

KeywordSentences ==
    {KeywordSentence(p, first, second) :
        p \in Operands, first \in KeywordParts,
        second \in KeywordParts \cup {<<>>}}

MaxKeywordTokens == 5

KeywordTokens ==
    KeywordSelectors
    \cup {Tok("Identifier", <<"a">>), Tok("Plus", <<"+">>), Sym("Assign")}

KeywordBodies ==
    {b \o <<Sym("Period")>> : b \in SeqsUpTo(KeywordTokens, MaxKeywordTokens)}

\* Sentences that assign to something that is not a bare variable:
\* 1 := 1 .   true := 1 .   nil := 1 .   a u := 1 .   a + a := 1 .
\* [ ] := 1 .   ( a ) := 1 .   ( a u ) := 1 .
NonVariables ==
    {<<Tok("Integer", <<"1">>)>>,
     <<Tok("Identifier", <<"t", "r", "u", "e">>)>>,
     <<Tok("Identifier", <<"n", "i", "l">>)>>,
     <<Tok("Identifier", <<"a">>), Tok("Identifier", <<"u">>)>>,
     <<Tok("Identifier", <<"a">>), Tok("Plus", <<"+">>),
       Tok("Identifier", <<"a">>)>>,
     <<Sym("NewBlock"), Sym("EndBlock")>>,
     <<Sym("NewTerm"), Tok("Identifier", <<"a">>), Sym("EndTerm")>>,
     <<Sym("NewTerm"), Tok("Identifier", <<"a">>), Tok("Identifier", <<"u">>),
       Sym("EndTerm")>>}

AssignSentence(left) ==
    left \o <<Sym("Assign"), Tok("Integer", <<"1">>), Sym("Period")>>

AssignSentences == {AssignSentence(left) : left \in NonVariables}

\* Chains of assignments: v1 := ... := vn := e . with up to MaxChain
\* variables, e a formula or a keyword message.
MaxChain == 3

ChainVariables == {Tok("Identifier", <<"a">>), Tok("Identifier", <<"b">>)}

ChainTargets == SeqsUpTo(ChainVariables, MaxChain) \ {<<>>}

ChainValues == Formulas \cup {<<p>> \o k : p \in Operands, k \in KeywordParts}

RECURSIVE ChainOf(_)
ChainOf(targets) ==
    IF targets = <<>> THEN <<>>
    ELSE <<Head(targets), Sym("Assign")>> \o ChainOf(Tail(targets))

ChainSentence(targets, e) == ChainOf(targets) \o e \o <<Sym("Period")>>

ChainSentences ==
    {ChainSentence(targets, e) : targets \in ChainTargets, e \in ChainValues}

\* Classes with variables: C = ( [| names |] [m = primitive]
\* [---- [| names |] [m = primitive]] ) with up to MaxLocals names a section.
MaxLocals == 2

LocalNames == {Tok("Identifier", <<"x">>), Tok("Identifier", <<"y">>)}

LocalsSections ==
    {<<>>}
    \cup {<<Tok("Or", <<"|">>)>> \o names \o <<Tok("Or", <<"|">>)>> :
            names \in SeqsUpTo(LocalNames, MaxLocals)}

PrimitiveMethod ==
    <<Tok("Identifier", <<"m">>), Tok("Equal", <<"=">>), Sym("Primitive")>>

MethodSections == {<<>>, PrimitiveMethod}

ClassSides ==
    {<<>>}
    \cup {<<Sym("Separator")>> \o v \o m :
            v \in LocalsSections, m \in MethodSections}

ClassSentence(locals, methods, side) ==
    <<Tok("Identifier", <<"C">>), Tok("Equal", <<"=">>), Sym("NewTerm")>>
    \o locals \o methods \o side \o <<Sym("EndTerm")>>

ClassSentences ==
    {ClassSentence(v, m, side) :
        v \in LocalsSections, m \in MethodSections, side \in ClassSides}

\* Classes with methods: C = ( defs [---- defs] ) with up to MaxMethods
\* definitions a side, each given with the method it defines.
MaxMethods == 2

MethodDefinitions ==
    {[tokens |-> PrimitiveMethod,
      method |-> MethodPrimitive(<<"m">>, <<>>)],
     [tokens |-> <<Tok("Identifier", <<"m">>), Tok("Equal", <<"=">>),
                   Sym("NewTerm"), Sym("EndTerm")>>,
      method |-> MethodNative(<<"m">>, <<>>, <<>>, <<>>)],
     [tokens |-> <<Tok("Identifier", <<"n">>), Tok("Equal", <<"=">>),
                   Sym("Primitive")>>,
      method |-> MethodPrimitive(<<"n">>, <<>>)]}

MethodLists == SeqsUpTo(MethodDefinitions, MaxMethods)

TokensOf(defs) == Flatten([i \in DOMAIN defs |-> defs[i].tokens])

MethodsSentences ==
    {ClassSentence(<<>>, TokensOf(im), <<>>) : im \in MethodLists}
    \cup {ClassSentence(<<>>, TokensOf(im), <<Sym("Separator")>> \o TokensOf(cm)) :
            im \in MethodLists, cm \in MethodLists}

\* Method patterns, each given with its selector and its parameters: the
\* unary pattern m, the keyword patterns of up to MaxParts parts k: x and
\* j: y, and a binary pattern op x for every operator and for ++.
MaxParts == 2

PatternParts ==
    {<<KeywordK, Tok("Identifier", <<"x">>)>>,
     <<Tok("Keyword", <<"j", ":">>), Tok("Identifier", <<"y">>)>>}

KeywordPatterns ==
    {[tokens |-> Flatten(parts),
      name |-> Flatten([i \in DOMAIN parts |-> Unwrap(parts[i][1].text)]),
      parameters |-> [i \in DOMAIN parts |-> Unwrap(parts[i][2].text)]] :
        parts \in SeqsUpTo(PatternParts, MaxParts) \ {<<>>}}

BinaryPatternSelectors ==
    {Tok(OperatorKind[c], <<c>>) : c \in DOMAIN OperatorKind}
    \cup {Tok("OperatorSequence", <<"+", "+">>)}

BinaryPatterns ==
    {[tokens |-> <<op, Tok("Identifier", <<"x">>)>>,
      name |-> Unwrap(op.text), parameters |-> <<<<"x">>>>] :
        op \in BinaryPatternSelectors}

UnaryPatterns ==
    {[tokens |-> <<Tok("Identifier", <<"m">>)>>, name |-> <<"m">>,
      parameters |-> <<>>]}

Patterns == UnaryPatterns \cup KeywordPatterns \cup BinaryPatterns

PatternSentence(p) == p.tokens \o <<Tok("Equal", <<"=">>), Sym("Primitive")>>

PatternSentences ==
    {PatternSentence(p) : p \in Patterns}
    \cup {ClassSentence(<<>>, PatternSentence(p), <<>>) : p \in Patterns}

TokenFamilies ==
    {ExpressionTokens, StatementTokens, BlockTokens, LiteralTokens,
     ClassTokens, FailingTokens}

Bodies == UNION {SeqsUpTo(family, MaxTokens) : family \in TokenFamilies}

\* Integer literals around the ends of the signed 64-bit range, with and
\* without a Minus before them and closed by a Period, as in the tests:
\* 0, 7, 07, 2^63 - 1, 2^63, 2^63 + 1.
I64MinDigits == Append(SubSeq(I64Max, 1, 18), "8")

IntegerDigits ==
    {<<"0">>, <<"7">>, <<"0", "7">>, I64Max, I64MinDigits,
     Append(SubSeq(I64Max, 1, 18), "9")}

IntegerSentences ==
    {sign \o <<Tok("Integer", d), Sym("Period")>> :
        sign \in {<<>>, <<Tok("Minus", <<"-">>)>>},
        d \in IntegerDigits}

ParserInputs ==
    {Located(b, 1) : b \in Bodies}
    \cup {Located(b, 1) : b \in IntegerSentences}
    \cup {Located(AsMethod(b), 1) : b \in Bodies}
    \cup {Located(AsClass(b), 1) : b \in Bodies}
    \cup {Located(b, 1) : b \in PrecedenceSentences}
    \cup {Located(b, 1) : b \in KeywordSentences \cup KeywordBodies}
    \cup {Located(b, 1) : b \in AssignSentences}
    \cup {Located(b, 1) : b \in ChainSentences}
    \cup {Located(b, 1) : b \in ClassSentences}
    \cup {Located(b, 1) : b \in MethodsSentences}
    \cup {Located(b, 1) : b \in PatternSentences}

\* The parser variables while another component runs.
ParIdle ==
    /\ ptokens = <<>>
    /\ parser = NewParser(<<>>)
    /\ pcalled = "none"
    /\ presult = NoResult

\* Parser::new over a lexer that will give the items of ptokens.
ParInit ==
    /\ ptokens \in ParserInputs
    /\ parser = NewParser(ptokens)
    /\ pcalled = "none"
    /\ presult = NoResult

ParNext ==
    \/ Parser_parse
    \/ Parser_parse_method
    \/ Parser_parse_expression

(***************************************************************************)
(* Symbol interner: src/vm/universe.rs                                     *)
(***************************************************************************)
\* struct SSymbol(String)
SSymbol(txt) == [text |-> txt]

\* Universe::new
NewUniverse == [symbols |-> NewHashMap]

\* A load_symbol that makes a new symbol at every call.
MutLoadSymbolAlwaysNew(u, h, txt) ==
    [universe |-> [u EXCEPT !.symbols = Insert(@, txt, Len(h) + 1)],
     heap |-> Append(h, SSymbol(txt)),
     symbol |-> Len(h) + 1]

\* Universe::load_symbol: the universe and the allocations afterwards, and
\* the Rc returned, which is the address of its allocation.
LoadSymbol(u, h, txt) ==
    IF txt \in DOMAIN u.symbols
    THEN [universe |-> u, heap |-> h, symbol |-> u.symbols[txt]]
    ELSE [universe |-> [u EXCEPT !.symbols = Insert(@, txt, Len(h) + 1)],
          heap |-> Append(h, SSymbol(txt)),
          symbol |-> Len(h) + 1]

\* ---- the inputs of the interner specification ----
MaxLoads == 4

SymbolTexts == {<<"a">>, <<"b">>, <<"a", "b">>}

\* The interner variables while another component runs.
UniIdle ==
    /\ universe = NewUniverse
    /\ heap = <<>>
    /\ loaded = <<>>

UniInit ==
    /\ universe = NewUniverse
    /\ heap = <<>>
    /\ loaded = <<>>

\* One call of load_symbol.
Universe_load_symbol ==
    /\ Len(loaded) < MaxLoads
    /\ \E txt \in SymbolTexts :
         /\ universe' = LoadSymbol(universe, heap, txt).universe
         /\ heap' = LoadSymbol(universe, heap, txt).heap
         /\ loaded' = Append(loaded,
                             [text |-> txt,
                              symbol |-> LoadSymbol(universe, heap, txt).symbol])
    /\ UNCHANGED <<bcVars, lexVars, parVars>>

UniNext == Universe_load_symbol

\* A lexer alone: the decoder and the parser are not used.
InitLexer == LexInit /\ BcIdle /\ ParIdle /\ UniIdle

SpecLexer == InitLexer /\ [][LexNext]_vars

\* The sources of the specification with fairness are the shorter ones.
MaxFairSource == 3

LexFairInit == InitLexer /\ Len(source) <= MaxFairSource

\* The running call keeps running: the thread executing next() is not
\* suspended inside it.
SpecLexerFair ==
    LexFairInit /\ [][LexNext]_vars /\ WF_vars(LexStep)

\* A decoder alone.
InitBytecode == BcInit /\ LexIdle /\ ParIdle /\ UniIdle

SpecBytecode == InitBytecode /\ [][BcNext]_vars

\* A parser alone, over the items its lexer gives.
InitParser == ParInit /\ BcIdle /\ LexIdle /\ UniIdle

\* An interner alone.
InitUniverse == UniInit /\ BcIdle /\ LexIdle /\ ParIdle

SpecUniverse == InitUniverse /\ [][UniNext]_vars

SpecParser == InitParser /\ [][ParNext]_vars

(***************************************************************************)
(* Claims about the bytecode encoder and decoder (SpecBytecode)            *)
(***************************************************************************)
\* The opcode table of the specification: tag byte and number of argument
\* bytes of every opcode.
TagTable ==
    [Halt |-> 0, Dup |-> 1, PushLocal |-> 2, PushArgument |-> 3,
     PushField |-> 4, PushBlock |-> 5, PushConstant |-> 6, PushGlobal |-> 7,
     Pop |-> 8, PopLocal |-> 9, PopArgument |-> 10, PopField |-> 11,
     Send |-> 12, SuperSend |-> 13, ReturnLocal |-> 14, ReturnNonLocal |-> 15]

ArityTable ==
    [Halt |-> 0, Dup |-> 0, PushLocal |-> 2, PushArgument |-> 2,
     PushField |-> 1, PushBlock |-> 1, PushConstant |-> 1, PushGlobal |-> 1,
     Pop |-> 0, PopLocal |-> 2, PopArgument |-> 2, PopField |-> 1,
     Send |-> 1, SuperSend |-> 1, ReturnLocal |-> 0, ReturnNonLocal |-> 0]

OpcodeNames == DOMAIN TagTable

\* The opcode the table gives tag t (t in 0..15).
TableOpcode(t) == CHOOSE op \in OpcodeNames : TagTable[op] = t

\* The encoding the table prescribes: tag, then index, then context.
TableEncoding(b) ==
    <<TagTable[b.op]>> \o SubSeq(<<b.index, b.context>>, 1, ArityTable[b.op])

\* The instruction the table prescribes for tag t followed by bytes args.
TableInstruction(t, args) ==
    LET op == TableOpcode(t)
    IN  CASE ArityTable[op] = 0 -> Nullary(op)
          [] ArityTable[op] = 1 -> Unary(op, args[1])
          [] ArityTable[op] = 2 -> Bytecode(op, args[1], args[2])

IsPrefix(s, t) == Len(s) <= Len(t) /\ s = SubSeq(t, 1, Len(s))

\* The items a decoder owes for the instructions p, in order.
OkItems(p) == [i \in 1..Len(p) |-> BcOk(p[i])]

WholeProgram == ~bcRaw /\ bcCut = 0

HasYieldedError == \E i \in 1..Len(yielded) : yielded[i].tag = "Err"

\* C6: decoding the concatenated encodings of any instruction sequence
\* yields, call by call, exactly those instructions in order, never an
\* error, and end-of-sequence once they are all yielded.
C6_RoundTrip ==
    [][WholeProgram =>
         IF Len(yielded) < Len(bcProgram)
         THEN /\ bcLast' = BcOk(bcProgram[Len(yielded) + 1])
              /\ yielded' = Append(yielded, bcLast')
         ELSE /\ bcLast' = BcNone
              /\ yielded' = yielded]_vars

C6_Witness ==
    /\ WholeProgram
    /\ Len(bcProgram) = 2
    /\ bcProgram[1].op = "PushLocal"
    /\ bcProgram[1].index # bcProgram[1].context
    /\ bcProgram[2].op = "Send"
    /\ yielded = OkItems(bcProgram)
    /\ bcLast = BcNone

\* C7: once next() has yielded an error, no later call of next() yields an
\* instruction, whatever bytes remain.
C7_ErrorsAreTerminal ==
    [][HasYieldedError => bcLast'.tag # "Ok"]_vars

\* C8: a byte of 16 or more at an instruction boundary yields
\* UnknownBytecode with exactly that byte and no instruction; a byte in
\* 0..15 is never reported as unknown.
C8_UnknownBytecode ==
    [][inner # <<>> =>
         IF Head(inner) >= 16
         THEN /\ bcLast' = BcErr(UnknownBytecode(Head(inner)))
              /\ yielded' = Append(yielded, bcLast')
         ELSE bcLast'.error.kind # "UnknownBytecode"]_vars

C8_Witness ==
    /\ bcRaw
    /\ Len(yielded) = 2
    /\ yielded[1].tag = "Ok"
    /\ bcLast = BcErr(UnknownBytecode(MaxByte))

\* C9: when the input ends after an opcode byte with fewer argument bytes
\* left than the opcode needs, the decoder yields the instructions decoded
\* before it, in order, then InsufficientArguments, and no instruction for
\* the truncated one.
C9_InsufficientArguments ==
    (~bcRaw /\ bcCut > 0) =>
        LET owed == Append(OkItems(SubSeq(bcProgram, 1, Len(bcProgram) - 1)),
                           BcErr(InsufficientArguments))
        IN  /\ IsPrefix(yielded, owed)
            /\ bcLast.tag = "None" => yielded = owed
            /\ bcLast.tag = "Err" => yielded = owed

C9_Witness ==
    /\ ~bcRaw
    /\ bcCut = 1
    /\ Len(bcProgram) = 2
    /\ bcProgram[2].op = "PopArgument"
    /\ Len(yielded) = 2
    /\ yielded[1].tag = "Ok"
    /\ bcLast = BcErr(InsufficientArguments)

\* C10: the encoder writes every instruction as its tag byte from the fixed
\* table followed by index then context (length 1 + arity), and the decoder
\* reads a tag byte followed by enough bytes as the table's opcode with
\* those arguments, consuming 1 + arity bytes.
C10_OpcodeTable ==
    [][/\ (WholeProgram /\ bcLast = BcStart) =>
              /\ inner = Flatten([i \in 1..Len(bcProgram) |->
                                     TableEncoding(bcProgram[i])])
              /\ \A i \in 1..Len(bcProgram) :
                     Len(Encode(bcProgram[i])) = 1 + ArityTable[bcProgram[i].op]
       /\ (/\ inner # <<>>
           /\ Head(inner) <= 15
           /\ Len(inner) > ArityTable[TableOpcode(Head(inner))]) =>
              LET k == ArityTable[TableOpcode(Head(inner))]
              IN  /\ bcLast' = BcOk(TableInstruction(Head(inner),
                                                     SubSeq(inner, 2, k + 1)))
                  /\ inner' = SubSeq(inner, k + 2, Len(inner))]_vars

C10_Witness ==
    /\ bcRaw
    /\ inner = <<>>
    /\ yielded = <<BcOk(Bytecode("PopLocal", 16, 0))>>
    /\ bcLast = BcOk(Bytecode("PopLocal", 16, 0))

(***************************************************************************)
(* Claims about the lexer (SpecLexer, SpecLexerFair)                       *)
(***************************************************************************)
\* The characters of the source that no call has consumed yet: the rest of
\* the buffered line and what the reader still holds.
Unread ==
    SubSeq(buffer.buffer, buffer.position + 1, Len(buffer.buffer))
    \o buffer.reader.rest

\* The number of characters of the source consumed so far.
ConsumedCount == Len(source) - Len(Unread)

\* The number of characters of src before its line number `line`.
LineOffset(src, line) ==
    IF line <= 1
    THEN 0
    ELSE LET newlines == {i \in 1..Len(src) : src[i] = Newline}
         IN  CHOOSE i \in newlines :
                 Cardinality({j \in newlines : j <= i}) = line - 1

\* The index in the source of the first character of token t.
TokenStart(t) == LineOffset(source, t.location.line) + t.location.column + 1

\* The number of backslashes right before index n of src, above index lo.
RECURSIVE BackslashRun(_, _, _)
BackslashRun(src, n, lo) ==
    IF n - 1 > lo /\ src[n - 1] = Backslash
    THEN 1 + BackslashRun(src, n - 1, lo)
    ELSE 0

Returned(kind) ==
    lpc = "idle" /\ lexLast.tag = "Token" /\ lexLast.token.kind = kind

\* C1: every call of next() on a finite source terminates (with a token,
\* end-of-input or an I/O error), also when the source ends inside a
\* comment or a string literal.
C1_NextTerminates == (lpc # "idle") ~> (lpc = "idle")

\* C3: the lexer never reports end-of-input while unread characters remain;
\* a character that starts no token is an error, not the end of the input.
C3_NoEndOfInputBeforeTheEnd ==
    (lpc = "idle" /\ lexLast.tag = "None") => Unread = <<>>

\* C4: no String token is produced for a string literal whose opening quote
\* is not matched by an unescaped closing quote: the last character
\* consumed for a String token is a quote after the opening one, with an
\* even number of backslashes before it.
C4_UnterminatedStringIsError ==
    Returned("String") =>
        LET open  == TokenStart(lexLast.token)
            close == ConsumedCount
        IN  /\ close > open
            /\ source[close] = Quote
            /\ BackslashRun(source, close, open) % 2 = 0

(***************************************************************************)
(* Claims about the parser (SpecParser)                                    *)
(***************************************************************************)
\* C2: parse, parse_method and parse_expression return an AST value or an
\* Error value for every token sequence; none makes the parser abort in an
\* unreachable! or an unwrap.
C2_ParserNeverAborts == pcalled # "none" => presult.tag # "Panic"

\* C5: when the lexer hands the parser an I/O error, for a peek or for a
\* consumed token, the call returns Error::IoError, never a ParseError.
C5_IoErrorIsPropagated ==
    (pcalled # "none" /\ parser.io_seen) => presult.tag = "IoError"

\* The tokens the call has taken from the lexer, and their number.
ConsumedTokens == Len(ptokens) - Len(parser.lexer)

\* C11: parse returns a Class only when the class body is closed by a ')':
\* the token after the last method, or after the class side, is EndTerm.
C11_ClassBodyIsClosed ==
    (pcalled = "parse" /\ presult.tag = "Ok") =>
        (parser.lexer # <<>> /\ Head(parser.lexer).kind = "EndTerm")

\* The number of tokens of the given kind among the tokens taken.
CountKind(kind) == Cardinality({i \in 1..ConsumedTokens : ptokens[i].kind = kind})

\* C12: the statements of a method body are separated by Period: a body of
\* n statements was read from tokens holding at least n - 1 Period tokens.
C12_StatementsAreSeparated ==
    (pcalled = "parse_method" /\ presult.tag = "Ok"
        /\ presult.value.method = "Native") =>
        Len(presult.value.body) <= CountKind("Period") + 1

\* The expression a single operand token stands for.
OperandOf(t) ==
    IF t.kind = "Identifier" THEN Variable(Unwrap(t.text))
    ELSE LiteralInteger(FALSE, Unwrap(t.text))

\* The operand with the unary message of u, if there is one.
WithUnary(e, u) ==
    IF u = <<>> THEN e ELSE UnaryMessage(e, Unwrap(u[1].text))

\* The operand with the keyword message of k, if there is one.
WithKeyword(e, k) ==
    IF k = <<>> THEN e
    ELSE KeywordMessage(e, Unwrap(k[1].text), <<OperandOf(k[2])>>)

\* C13: unary messages bind tighter than binary messages, which bind tighter
\* than keyword messages: p u op q v k: r parses to the keyword message k:
\* whose receiver is the binary message op of the unary messages p u and q v,
\* and 1 test + 2 to the binary message + of (1 test) and 2.
C13_Precedence ==
    \A p \in Operands, u \in OptionalUnary, op \in BinarySelectors,
       q \in Operands, v \in OptionalUnary, k \in OptionalKeyword :
        (/\ pcalled = "parse_expression"
         /\ ptokens = Located(PrecedenceSentence(p, u, op, q, v, k), 1)) =>
            /\ presult.tag = "Ok"
            /\ presult.value =
                 WithKeyword(BinaryMessage(Unwrap(op.text),
                                           WithUnary(OperandOf(p), u),
                                           WithUnary(OperandOf(q), v)), k)
            /\ ConsumedTokens = Len(ptokens) - 1

\* a u + 1 v k: a . has been parsed to a keyword message.
C13_Witness ==
    /\ pcalled = "parse_expression"
    /\ ptokens = Located(PrecedenceSentence(Tok("Identifier", <<"a">>),
                                            <<Tok("Identifier", <<"u">>)>>,
                                            Tok("Plus", <<"+">>),
                                            Tok("Integer", <<"1">>),
                                            <<Tok("Identifier", <<"v">>)>>,
                                            <<KeywordK,
                                              Tok("Identifier", <<"a">>)>>), 1)
    /\ presult.tag = "Ok"
    /\ presult.value.node = "KeywordMessage"
    /\ presult.value.receiver.node = "BinaryMessage"
    /\ presult.value.receiver.left.node = "UnaryMessage"
    /\ presult.value.receiver.right.node = "UnaryMessage"

\* The expression the tokens of a formula of Formulas stand for.
FormulaOf(f) ==
    CASE Len(f) = 1 -> OperandOf(f[1])
      [] Len(f) = 2 -> UnaryMessage(OperandOf(f[1]), Unwrap(f[2].text))
      [] OTHER -> BinaryMessage(Unwrap(f[2].text), OperandOf(f[1]),
                                OperandOf(f[3]))

\* The selector and the parameters of the keyword parts first and second.
SelectorOf(first, second) ==
    Unwrap(first[1].text)
    \o (IF second = <<>> THEN <<>> ELSE Unwrap(second[1].text))

ParametersOf(first, second) ==
    <<FormulaOf(Tail(first))>>
    \o (IF second = <<>> THEN <<>> ELSE <<FormulaOf(Tail(second))>>)

\* No parameter of a keyword message of the expression is a keyword message
\* or an assignment.
RECURSIVE ParametersAreFormulas(_)
ParametersAreFormulas(e) ==
    CASE e.node = "Assignment" -> ParametersAreFormulas(e.value)
      [] e.node = "UnaryMessage" -> ParametersAreFormulas(e.receiver)
      [] e.node = "BinaryMessage" ->
           ParametersAreFormulas(e.left) /\ ParametersAreFormulas(e.right)
      [] e.node = "KeywordMessage" ->
           /\ ParametersAreFormulas(e.receiver)
           /\ \A i \in 1..Len(e.parameters) :
                /\ e.parameters[i].node \notin {"KeywordMessage", "Assignment"}
                /\ ParametersAreFormulas(e.parameters[i])
      [] OTHER -> TRUE

\* No parenthesis and no block among the tokens taken.
NoNesting == CountKind("NewTerm") = 0 /\ CountKind("NewBlock") = 0

\* C14: the keyword parts of one message send make one KeywordMessage whose
\* selector is the keywords in order and whose parameters are the arguments
\* in order; each argument is a formula, so without parentheses and blocks
\* no parameter of a KeywordMessage is a KeywordMessage or an Assignment.
C14_KeywordMessageIsFlat ==
    /\ \A p \in Operands, first \in KeywordParts,
          second \in KeywordParts \cup {<<>>} :
        (/\ pcalled = "parse_expression"
         /\ ptokens = Located(KeywordSentence(p, first, second), 1)) =>
            /\ presult.tag = "Ok"
            /\ presult.value =
                 KeywordMessage(OperandOf(p), SelectorOf(first, second),
                                ParametersOf(first, second))
    /\ (pcalled = "parse_expression" /\ presult.tag = "Ok" /\ NoNesting) =>
            ParametersAreFormulas(presult.value)

\* a k: a + 1 j: a u . has been parsed to one keyword message k:j:.
C14_Witness ==
    /\ pcalled = "parse_expression"
    /\ ptokens =
         Located(KeywordSentence(Tok("Identifier", <<"a">>),
                                 <<KeywordK, Tok("Identifier", <<"a">>),
                                   Tok("Plus", <<"+">>),
                                   Tok("Integer", <<"1">>)>>,
                                 <<Tok("Keyword", <<"j", ":">>),
                                   Tok("Identifier", <<"a">>),
                                   Tok("Identifier", <<"u">>)>>), 1)
    /\ presult.tag = "Ok"
    /\ presult.value.node = "KeywordMessage"
    /\ presult.value.message = <<"k", ":", "j", ":">>
    /\ Len(presult.value.parameters) = 2

\* C15: := after a left-hand side that is not a bare variable (a literal,
\* a message send, a block, a parenthesised expression) gives the ParseError
\* of an assignment to a non-variable, with the parser's filename and the
\* location of the := token, and never an Assignment.
C15_AssignToNonVariableIsRejected ==
    \A left \in NonVariables :
        (/\ pcalled = "parse_expression"
         /\ ptokens = Located(AssignSentence(left), 1)) =>
            /\ presult.tag = "ParseError"
            /\ presult.description = AssignToNonVariable
            /\ presult.filename = Filename
            /\ presult.location = ptokens[Len(left) + 1].location

\* The expression the tokens of a value of ChainValues stand for.
ChainValueOf(e) ==
    IF e \in Formulas THEN FormulaOf(e)
    ELSE KeywordMessage(OperandOf(e[1]), Unwrap(e[2].text),
                        <<FormulaOf(SubSeq(e, 3, Len(e)))>>)

\* Assignment{v1, Assignment{v2, ... Assignment{vn, value}}}
RECURSIVE AssignmentsTo(_, _)
AssignmentsTo(targets, value) ==
    IF targets = <<>> THEN value
    ELSE Assignment(Unwrap(Head(targets).text),
                    AssignmentsTo(Tail(targets), value))

\* C16: assignment is right-associative: v1 := v2 := ... := vn := e parses
\* to Assignment{v1, Assignment{v2, ... Assignment{vn, e}}}, e being the
\* whole remaining expression, message sends included.
C16_AssignmentIsRightAssociative ==
    \A targets \in ChainTargets, e \in ChainValues :
        (/\ pcalled = "parse_expression"
         /\ ptokens = Located(ChainSentence(targets, e), 1)) =>
            /\ presult.tag = "Ok"
            /\ presult.value = AssignmentsTo(targets, ChainValueOf(e))
            /\ ConsumedTokens = Len(ptokens) - 1

\* a := b := a := 1 k: a + 1 . has been parsed to three nested assignments
\* around the keyword message.
C16_Witness ==
    /\ pcalled = "parse_expression"
    /\ Len(ptokens) = 12
    /\ \A i \in {2, 4, 6} : ptokens[i].kind = "Assign"
    /\ ptokens[8].kind = "Keyword"
    /\ ptokens[10].kind = "Plus"
    /\ presult.tag = "Ok"
    /\ presult.value.node = "Assignment"
    /\ presult.value.value.node = "Assignment"
    /\ presult.value.value.value.node = "Assignment"
    /\ presult.value.value.value.value.node = "KeywordMessage"

\* The location of the last token taken, or Location::default() if none was.
LastConsumedLocation ==
    IF ConsumedTokens = 0 THEN Location(1, 0)
    ELSE ptokens[ConsumedTokens].location

\* C17: every ParseError carries the parser's filename and a location: for
\* an unexpected token the location of that token, and when the input ends
\* unexpectedly the location of the last token consumed, or line 1 column 0
\* if no token was consumed.
C17_ParseErrorLocation ==
    (pcalled # "none" /\ presult.tag = "ParseError") =>
        /\ presult.filename = Filename
        /\ presult.location = LastConsumedLocation
        /\ presult.description.msg = "Expected, found" =>
             /\ ConsumedTokens > 0
             /\ ptokens[ConsumedTokens].kind = presult.description.found
             /\ presult.description.found \notin presult.description.expected
        /\ presult.description = UnexpectedEnd =>
             \/ parser.lexer = <<>>
             \/ Head(parser.lexer) = IoErrorItem

\* An unexpected token that is not the first token has been reported.
C17_Witness ==
    /\ pcalled = "parse_method"
    /\ presult.tag = "ParseError"
    /\ presult.description.msg = "Expected, found"
    /\ ConsumedTokens = 3
    /\ presult.location = Location(3, 0)

(***************************************************************************)
(* Claims about the tokens of the lexer (SpecLexer)                        *)
(***************************************************************************)
\* The position of the character at index i of src: the line is one more
\* than the number of line breaks before it, the column its offset in the
\* line.
PositionOf(src, i) ==
    LET breaks == {j \in 1..(i - 1) : src[j] = Newline}
        start  == IF breaks = {} THEN 0
                  ELSE CHOOSE j \in breaks : \A k \in breaks : k <= j
    IN  Location(1 + Cardinality(breaks), i - 1 - start)

\* The last index of the run of digits of src that starts at index i
\* (i - 1 if there is no digit at i).
RECURSIVE DigitRunEnd(_, _)
DigitRunEnd(src, i) ==
    IF i <= Len(src) /\ IsAsciiDigit(src[i]) THEN DigitRunEnd(src, i + 1)
    ELSE i - 1

\* The number that starts at index s of src: its kind, its text, whether a
\* Period follows it, and the index of the last character it takes.
NumberAt(src, s) ==
    LET e == DigitRunEnd(src, s)
    IN  IF e + 1 <= Len(src) /\ src[e + 1] = "."
        THEN IF DigitRunEnd(src, e + 2) > e + 1
             THEN [kind |-> "Double", period |-> FALSE,
                   text |-> SubSeq(src, s, DigitRunEnd(src, e + 2)),
                   end |-> DigitRunEnd(src, e + 2)]
             ELSE [kind |-> "Integer", period |-> TRUE,
                   text |-> SubSeq(src, s, e), end |-> e + 1]
        ELSE [kind |-> "Integer", period |-> FALSE,
              text |-> SubSeq(src, s, e), end |-> e]

\* C18: a run of digits, a '.' and at least one digit give one Double whose
\* text is digits '.' digits; a run of digits and a '.' with no digit after
\* it give Integer(digits) and then, as the very next token, a Period
\* located at the '.'; a run of digits with no '.' after it gives
\* Integer(digits); no Double text ends in '.'.
C18_NumberTokens ==
    /\ [](Returned("Integer") \/ Returned("Double") =>
            LET t == lexLast.token
                s == ConsumedCount - Len(Unwrap(t.text)) - Len(queue) + 1
                n == NumberAt(source, s)
            IN  /\ s >= 1
                /\ IsAsciiDigit(source[s])
                /\ s > 1 => ~IsAsciiDigit(source[s - 1])
                /\ t.kind = n.kind
                /\ t.text = SomeText(n.text)
                /\ ConsumedCount = n.end
                /\ queue = IF n.period
                           THEN <<Token("Period", NoText,
                                        PositionOf(source, n.end))>>
                           ELSE <<>>
                /\ t.kind = "Double" =>
                     Unwrap(t.text)[Len(Unwrap(t.text))] # ".")
    /\ [][queue # <<>> =>
            /\ lpc' = "idle"
            /\ lexLast' = LexToken(Head(queue))
            /\ queue' = Tail(queue)]_vars

\* The Period queued behind an Integer has been returned by the next call.
C18_Witness ==
    /\ lpc = "idle"
    /\ Len(lexOut) = 2
    /\ lexOut[1].token.kind = "Integer"
    /\ lexOut[1].token.text = SomeText(<<"1", "1">>)
    /\ lexLast = LexToken(Token("Period", NoText, Location(1, 2)))
    /\ source = <<"1", "1", ".", "a">>

\* The kinds of the tokens of runs of operator characters.
OperatorKinds ==
    {OperatorKind[c] : c \in DOMAIN OperatorKind}
    \cup {"OperatorSequence", "Separator"}

\* The kind and the text the claim gives for a run of operator characters.
RunKind(run) ==
    CASE Len(run) = 1 -> OperatorKind[run[1]]
      [] Len(run) >= 4 /\ (\A i \in 1..Len(run) : run[i] = "-") -> "Separator"
      [] OTHER -> "OperatorSequence"

RunText(run) ==
    CASE Len(run) = 1 -> SomeText(run)
      [] Len(run) >= 4 /\ (\A i \in 1..Len(run) : run[i] = "-") -> NoText
      [] OTHER -> SomeText(run)

\* C19: a run of operator characters of length 1 gives the kind of its
\* character with the character as text; a run of 4 or more characters that
\* are all '-' gives one Separator with no text; every other run of 2 or
\* more characters gives one OperatorSequence whose text is the whole run.
\* The run of a token is what lies between its first character and the last
\* character consumed: it is made of operator characters and is not
\* followed by one, nor preceded by one, the '=' of := apart.
C19_OperatorRuns ==
    (lpc = "idle" /\ lexLast.tag = "Token"
        /\ lexLast.token.kind \in OperatorKinds) =>
        LET t   == lexLast.token
            s   == TokenStart(t)
            e   == ConsumedCount
            run == SubSeq(source, s, e)
        IN  /\ 1 <= s /\ s <= e
            /\ \A i \in s..e : IsOperator(source[i])
            /\ e < Len(source) => ~IsOperator(source[e + 1])
            /\ s > 1 =>
                 \/ ~IsOperator(source[s - 1])
                 \/ /\ Len(lexOut) >= 2
                    /\ lexOut[Len(lexOut) - 1].token.kind = "Assign"
            /\ t.kind = RunKind(run)
            /\ t.text = RunText(run)
            /\ queue = <<>>

\* A run of four '-' has been returned as a Separator.
C19_Witness ==
    /\ Returned("Separator")
    /\ source = <<"-", "-", "-", "-">>
    /\ lexLast.token.text = NoText
    /\ lexOut = <<lexLast>>

\* The places of a call of next() inside a read_* function, where the
\* location of the token being read is held in a local.
ReadPlaces ==
    {"read_string", "read_number", "read_number_period",
     "read_number_fraction", "read_identifier", "read_identifier_colon",
     "read_keyword_sequence", "read_operator"}

\* C20: the location of every token is the position of its first character:
\* the line is one more than the number of line breaks before it and the
\* column its offset in its line, whatever whitespace, comments and line
\* breaks were skipped before it. The first character of a token is the
\* first unread character when read_token dispatches on it; the location
\* taken there is the one the token is returned with; a queued Period has
\* the position of its '.', the last character consumed.
C20_TokenLocation ==
    /\ [][lpc = "read_token" =>
            LET first == PositionOf(source, ConsumedCount + 1)
            IN  /\ lpc' \in ReadPlaces => location' = first
                /\ (lpc' = "idle" /\ lexLast'.tag = "Token") =>
                     lexLast'.token.location = first]_vars
    /\ [][(lpc \in ReadPlaces) =>
            /\ lpc' \in ReadPlaces => location' = location
            /\ (lpc' = "idle" /\ lexLast'.tag = "Token") =>
                 lexLast'.token.location = location]_vars
    /\ [](\A i \in 1..Len(queue) :
            queue[i].location = PositionOf(source, ConsumedCount))
    /\ [][(lpc = "idle" /\ lexLast'.tag = "Token" /\ lpc' = "idle") =>
            queue # <<>> /\ lexLast'.token = Head(queue)]_vars
    /\ [](lpc = "idle" /\ lexLast.tag = "Token" =>
            /\ TokenStart(lexLast.token) \in 1..ConsumedCount
            /\ PositionOf(source, TokenStart(lexLast.token))
                 = lexLast.token.location)

\* A token on the second line, after a line break and a comment.
C20_Witness ==
    /\ source = <<Newline, DoubleQuote, DoubleQuote, "a">>
    /\ Returned("Identifier")
    /\ lexLast.token.location = Location(2, 2)

\* The character an escape contributes, as the claim lists them; nothing for
\* every other escaped character.
EscapeOf(c) ==
    CASE c = Quote     -> <<Quote>>
      [] c = Backslash -> <<Backslash>>
      [] c = "b"       -> <<Backspace>>
      [] c = "f"       -> <<FormFeed>>
      [] c = "n"       -> <<Newline>>
      [] c = "r"       -> <<"\r">>
      [] c = "t"       -> <<"\t">>
      [] OTHER         -> <<>>

\* The text of the string literal whose characters start at index i of src
\* (after the opening quote), and the index of the last character it takes:
\* the first unescaped quote, or the end of src.
RECURSIVE StringText(_, _)
StringText(src, i) ==
    IF i > Len(src) \/ src[i] = Quote THEN <<>>
    ELSE IF src[i] = Backslash
    THEN IF i + 1 > Len(src) THEN <<>>
         ELSE EscapeOf(src[i + 1]) \o StringText(src, i + 2)
    ELSE <<src[i]>> \o StringText(src, i + 1)

RECURSIVE StringEnd(_, _)
StringEnd(src, i) ==
    IF i > Len(src) THEN Len(src)
    ELSE IF src[i] = Quote THEN i
    ELSE IF src[i] = Backslash THEN StringEnd(src, i + 2)
    ELSE StringEnd(src, i + 1)

\* C21: inside a string literal the escapes \' \\ \b \f \n \r \t contribute
\* quote, backslash, 0x08, 0x0C, newline, carriage return and tab; a
\* backslash followed by any other character contributes nothing; an escaped
\* quote does not end the string; every other character that is not a quote
\* is copied unchanged.
C21_StringEscapes ==
    Returned("String") =>
        LET open == TokenStart(lexLast.token)
        IN  /\ open \in 1..Len(source)
            /\ source[open] = Quote
            /\ lexLast.token.text = SomeText(StringText(source, open + 1))
            /\ ConsumedCount = StringEnd(source, open + 1)

\* '\n\a' has been read: the newline is kept, the escaped a is dropped.
C21_Witness ==
    /\ source = <<Quote, Backslash, "n", Backslash, "a", Quote>>
    /\ Returned("String")
    /\ lexLast.token.text = SomeText(<<Newline>>)

\* The texts of the Identifier tokens of a sequence of tokens, in order.
RECURSIVE NamesOf(_)
NamesOf(tokens) ==
    IF tokens = <<>> THEN <<>>
    ELSE (IF Head(tokens).kind = "Identifier"
          THEN <<Unwrap(Head(tokens).text)>> ELSE <<>>)
         \o NamesOf(Tail(tokens))

\* C22: the instance_variables of a parsed Class are the names of the locals
\* section before the Separator and its class_variables the names of the
\* one after it, in source order; a missing section gives the empty list,
\* and with no Separator class_variables and class_methods are both empty.
C22_ClassVariables ==
    (pcalled = "parse" /\ ptokens # <<>> /\ ptokens[1].text = SomeText(<<"C">>)) =>
        \A v \in LocalsSections, m \in MethodSections :
            /\ ptokens = Located(ClassSentence(v, m, <<>>), 1) =>
                 /\ presult.tag = "Ok"
                 /\ presult.value.instance_variables = NamesOf(v)
                 /\ presult.value.class_variables = <<>>
                 /\ presult.value.class_methods = NewHashMap
            /\ \A cv \in LocalsSections, cm \in MethodSections :
                 ptokens = Located(ClassSentence(v, m,
                                     <<Sym("Separator")>> \o cv \o cm), 1) =>
                     /\ presult.tag = "Ok"
                     /\ presult.value.instance_variables = NamesOf(v)
                     /\ presult.value.class_variables = NamesOf(cv)

\* C = ( | x y | ---- | y | ) has been parsed.
C22_Witness ==
    /\ pcalled = "parse"
    /\ presult.tag = "Ok"
    /\ presult.value.instance_variables = <<<<"x">>, <<"y">>>>
    /\ presult.value.class_variables = <<<<"y">>>>
    /\ CountKind("Separator") = 1

\* The map of a list of method definitions: one entry for each selector
\* defined, holding the last definition of that selector.
LastDefinitions(defs) ==
    [sel \in {defs[i].method.name : i \in DOMAIN defs} |->
        LET last == CHOOSE i \in DOMAIN defs :
                        /\ defs[i].method.name = sel
                        /\ \A j \in DOMAIN defs :
                             defs[j].method.name = sel => j <= i
        IN  defs[last].method]

\* C23: methods are keyed by selector with map semantics: the map of a
\* section has exactly one entry for each selector defined in it, holding
\* the last definition in source order; the maps of the instance side and
\* of the class side are independent.
C23_MethodMap ==
    (pcalled = "parse" /\ ptokens # <<>> /\ ptokens[1].text = SomeText(<<"C">>)) =>
        \A im \in MethodLists :
            /\ ptokens = Located(ClassSentence(<<>>, TokensOf(im), <<>>), 1) =>
                 /\ presult.tag = "Ok"
                 /\ presult.value.instance_methods = LastDefinitions(im)
                 /\ presult.value.class_methods = NewHashMap
            /\ \A cm \in MethodLists :
                 ptokens = Located(ClassSentence(<<>>, TokensOf(im),
                                     <<Sym("Separator")>> \o TokensOf(cm)), 1) =>
                     /\ presult.tag = "Ok"
                     /\ presult.value.instance_methods = LastDefinitions(im)
                     /\ presult.value.class_methods = LastDefinitions(cm)

\* C = ( m = primitive m = ( ) ---- n = primitive ) has been parsed: the
\* instance side has the one entry m, the native method.
C23_Witness ==
    /\ pcalled = "parse"
    /\ presult.tag = "Ok"
    /\ CountKind("Primitive") = 2
    /\ DOMAIN presult.value.instance_methods = {<<"m">>}
    /\ presult.value.instance_methods[<<"m">>].method = "Native"
    /\ DOMAIN presult.value.class_methods = {<<"n">>}
    /\ ptokens[4].kind = "Identifier" /\ ptokens[6].kind = "Primitive"

\* Every method of the map is stored under its own name.
KeyedByName(methods) == \A key \in DOMAIN methods : methods[key].name = key

\* C24: a unary pattern gives the identifier as selector and no parameter; a
\* keyword pattern gives the concatenation of its keyword parts as selector
\* and one parameter a part, in order; a binary pattern, a single operator
\* or an OperatorSequence followed by an identifier, gives the text of the
\* operator as selector and exactly one parameter. The name of a stored
\* method is the key it is stored under.
C24_MethodPatterns ==
    /\ pcalled = "parse_method" =>
         \A p \in Patterns :
            ptokens = Located(PatternSentence(p), 1) =>
                /\ presult.tag = "Ok"
                /\ presult.value = MethodPrimitive(p.name, p.parameters)
    /\ (pcalled = "parse" /\ presult.tag = "Ok") =>
         /\ KeyedByName(presult.value.instance_methods)
         /\ KeyedByName(presult.value.class_methods)
         /\ \A p \in Patterns :
              ptokens = Located(ClassSentence(<<>>, PatternSentence(p), <<>>), 1)
                => DOMAIN presult.value.instance_methods = {p.name}

\* k: x j: y = primitive has been parsed to the method k:j: of x and y.
C24_Witness ==
    /\ pcalled = "parse_method"
    /\ presult.tag = "Ok"
    /\ presult.value =
         MethodPrimitive(<<"k", ":", "j", ":">>, <<<<"x">>, <<"y">>>>)

(***************************************************************************)
(* Claims about the symbol interner (SpecUniverse)                         *)
(***************************************************************************)
\* C25: after any sequence of load_symbol calls on one Universe, two calls
\* with equal strings returned the identical handle, calls with different
\* strings returned different handles, the text of each handle is the
\* string it was interned with, and no entry of the table is ever removed
\* or replaced.
C25_SymbolsAreInterned ==
    /\ [](\A i, j \in DOMAIN loaded :
            (loaded[i].text = loaded[j].text)
                <=> (loaded[i].symbol = loaded[j].symbol))
    /\ [](\A i \in DOMAIN loaded :
            /\ loaded[i].symbol \in DOMAIN heap
            /\ heap[loaded[i].symbol] = SSymbol(loaded[i].text)
            /\ loaded[i].text \in DOMAIN universe.symbols
            /\ universe.symbols[loaded[i].text] = loaded[i].symbol)
    /\ [][/\ \A txt \in DOMAIN universe.symbols :
               /\ txt \in DOMAIN universe'.symbols
               /\ universe'.symbols[txt] = universe.symbols[txt]
          /\ \A a \in DOMAIN heap : a \in DOMAIN heap' /\ heap'[a] = heap[a]]_vars

\* a, b, a and ab have been loaded: the two calls for a gave one handle.
C25_Witness ==
    /\ Len(loaded) = 4
    /\ loaded[1].text = <<"a">> /\ loaded[2].text = <<"b">>
    /\ loaded[3].text = <<"a">> /\ loaded[4].text = <<"a", "b">>
    /\ loaded[1].symbol = loaded[3].symbol
    /\ Cardinality({loaded[i].symbol : i \in DOMAIN loaded}) = 3

(***************************************************************************)
(* Claims about the queue of the lexer (SpecLexer)                         *)
(***************************************************************************)
\* C26: the Period that read_number queues is never lost: an Integer that
\* took a '.' leaves a Period in the queue; the next call returns the queued
\* token without reading anything, also when the '.' was the last character
\* of the source; end-of-input is never signalled with a token in the queue;
\* and once end-of-input was signalled on an exhausted source (whose reader
\* has no failure to come), the next call signals it again.
C26_QueuedPeriodAndEnd ==
    /\ []((Returned("Integer") /\ source[ConsumedCount] = ".") =>
            (queue # <<>> /\ Head(queue).kind = "Period"))
    /\ [][queue # <<>> =>
            /\ lexLast' = LexToken(Head(queue))
            /\ lexOut' = Append(lexOut, LexToken(Head(queue)))
            /\ buffer' = buffer]_vars
    /\ []((lpc = "idle" /\ lexLast.tag = "None") => queue = <<>>)
    /\ [][(/\ lexLast.tag = "None"
           /\ Unread = <<>>
           /\ buffer.reader.failAt = -1
           /\ lpc' = "idle") => lexLast'.tag = "None"]_vars

\* The source 1. has given Integer, Period and then end-of-input twice.
C26_Witness ==
    /\ source = <<"1", ".">>
    /\ lpc = "idle"
    /\ lexLast.tag = "None"
    /\ Len(lexOut) = 2
    /\ lexOut[1].token.kind = "Integer"
    /\ lexOut[2].token.kind = "Period"
    /\ buffer.line > 2

\* C27: in every reachable state of the lexer the queue holds at most one
\* token, that token is a Period, and the queue is empty while a call of
\* next() is reading characters, so whenever a token-reading routine
\* starts.
C27_QueueHoldsOnePeriod ==
    /\ Len(queue) <= 1
    /\ \A i \in 1..Len(queue) :
         queue[i].kind = "Period" /\ queue[i].text = NoText
    /\ lpc # "idle" => queue = <<>>

\* A Period is waiting in the queue behind the Integer just returned.
C27_Witness ==
    /\ Returned("Integer")
    /\ Len(queue) = 1
    /\ queue[1].kind = "Period"
    /\ source = <<"1", ".", " ", "1">>

\* The text is one identifier followed by exactly one ':'.
IsKeywordPart(txt) ==
    /\ Len(txt) >= 2
    /\ IsAsciiAlphabetic(txt[1])
    /\ \A i \in 1..(Len(txt) - 1) : IsAsciiAlphanumeric(txt[i]) \/ txt[i] = "_"
    /\ txt[Len(txt)] = ":"

\* C28: the text of every Keyword token is one identifier followed by
\* exactly one ':', and the text of every KeywordSequence token is made of
\* keyword parts and so ends with ':', never with a letter.
C28_KeywordTexts ==
    /\ Returned("Keyword") => IsKeywordPart(Unwrap(lexLast.token.text))
    /\ Returned("KeywordSequence") =>
         LET txt == Unwrap(lexLast.token.text)
         IN  txt[Len(txt)] = ":"

\* C29: a string literal or a comment holding a character of more than one
\* byte lexes to the same text and does not disturb what follows: the
\* tokens after it, on its line and on the later lines, are all produced,
\* with their line numbers, before end-of-input is signalled.
C29_MultiByteCharacters ==
    source \in UnicodeSources =>
        /\ Returned("String") => lexLast.token.text = SomeText(<<EAcute>>)
        /\ Returned("Identifier") =>
             lexLast.token.location =
                PositionOf(source,
                           ConsumedCount - Len(Unwrap(lexLast.token.text)) + 1)
        /\ (lpc = "idle" /\ lexLast.tag = "None") =>
             \A i \in DOMAIN Unread : Unread[i] \in {" ", Newline}

\* The Integer token of an integer sentence, and whether a Minus precedes it.
IntegerNegative == ptokens[1].kind = "Minus"

IntegerText ==
    Unwrap(ptokens[IF IntegerNegative THEN 2 ELSE 1].text)

\* The digits denote a value of -2^63 .. 2^63 - 1.
InI64Range(negative, digits) ==
    \/ FitsI64(digits)
    \/ negative /\ StripZeros(digits) = I64MinDigits

\* C30: an Integer token in primary position, with or without a Minus
\* before it, parses to the literal of its decimal value, negated under
\* the Minus, for every value of -2^63 .. 2^63 - 1, -2^63 included; digits
\* outside that range give a parse error, never an abort.
C30_IntegerLiterals ==
    (/\ pcalled = "parse_expression"
     /\ \E b \in IntegerSentences : ptokens = Located(b, 1)) =>
        IF InI64Range(IntegerNegative, IntegerText)
        THEN /\ presult.tag = "Ok"
             /\ presult.value =
                  LiteralInteger(IntegerNegative
                                 /\ StripZeros(IntegerText) # <<>>,
                                 StripZeros(IntegerText))
        ELSE presult.tag = "ParseError"

====
